---- MODULE Spec2Model ----
(***************************************************************************)
(* Model of the page-content extraction core of browser-agentkit:         *)
(*   - the DOM snapshot decoder (content/dom-parser: analyzeSnapshot),    *)
(*   - the accessibility-tree-to-HTML synthesizer (content/accessibility: *)
(*     axTreeToHtml).                                                     *)
(* JavaScript strings are sequences of one-character strings, so that     *)
(* startsWith, escaping, lower-casing and concatenation are computed the  *)
(* way the code computes them.  JavaScript arrays keep their 0-based      *)
(* indices as values; At(arr, i) reads arr[i].                            *)
(***************************************************************************)
EXTENDS Integers, Sequences, FiniteSets, TLC

VARIABLES
  dpc,          \* decoder: position inside analyzeSnapshot
  snapshot,     \* decoder: the DOMSnapshot handed to analyzeSnapshot
  nodeMap,      \* decoder: processSnapshot's nodeMap (node index -> record)
  childrenMap,  \* decoder: processSnapshot's childrenMap (node index -> indices)
  detectedPdf,  \* decoder: result of isPdf()
  meta,         \* decoder: result of extractMeta() (key -> content)
  pointerNodes, \* decoder: result of findCursorPointerNodes()
  spc,          \* synthesizer: position of the axTreeToHtml call
  sin,          \* synthesizer: the arguments of axTreeToHtml
  html,         \* synthesizer: the string axTreeToHtml resolved to
  ppc,          \* pass: position inside ContentExtractor.getPageSnapshot
  pin,          \* pass: the options of the call and the node ids its lookups cover
  lookup,       \* pass: the running getEventListeners / getNodeBoundingBoxes call
  listenerMap,   \* pass: the map getEventListeners resolved to
  boundingBoxes,  \* pass: the map getNodeBoundingBoxes resolved to
  failed,       \* pass: the channel requests that were rejected so far
  frame,        \* frame recursion: the running parseIframe call
  mark,         \* visibility marking: the loops of axTreeToHtml before the walk
  ptr,          \* pointer propagation: the running findCursorPointerNodes call
  waiter,       \* the network-idle waiter and the request events it sees
  page,         \* a Page object and the calls running on it
  keyboard      \* a Keyboard object and the running press call

vars == <<dpc, snapshot, nodeMap, childrenMap, detectedPdf, meta, pointerNodes, spc, sin, html,
          ppc, pin, lookup, listenerMap, boundingBoxes, failed, frame,
          mark, ptr, waiter, page, keyboard>>
dvars == <<dpc, snapshot, nodeMap, childrenMap, detectedPdf, meta, pointerNodes>>
svars == <<spc, sin, html>>
pvars == <<ppc, pin, lookup, listenerMap, boundingBoxes, failed>>
fvars == <<frame>>
xvars == <<mark, ptr, waiter, page, keyboard>>

Idle == [pc |-> "idle"]

\* nothing is running in the components that have one variable each
RestIdle == mark = Idle /\ ptr = Idle /\ waiter = Idle /\ page = Idle /\ keyboard = Idle

(***************************************************************************)
(* String literals of the source, as character sequences.                 *)
(***************************************************************************)
Lit ==
  [
    link |-> <<"l","i","n","k">>,
    checkbox |-> <<"c","h","e","c","k","b","o","x">>,
    radio |-> <<"r","a","d","i","o">>,
    textbox |-> <<"t","e","x","t","b","o","x">>,
    searchbox |-> <<"s","e","a","r","c","h","b","o","x">>,
    switch |-> <<"s","w","i","t","c","h">>,
    slider |-> <<"s","l","i","d","e","r">>,
    spinbutton |-> <<"s","p","i","n","b","u","t","t","o","n">>,
    combobox |-> <<"c","o","m","b","o","b","o","x">>,
    heading |-> <<"h","e","a","d","i","n","g">>,
    paragraph |-> <<"p","a","r","a","g","r","a","p","h">>,
    list |-> <<"l","i","s","t">>,
    listitem |-> <<"l","i","s","t","i","t","e","m">>,
    row |-> <<"r","o","w">>,
    cell |-> <<"c","e","l","l">>,
    columnheader |-> <<"c","o","l","u","m","n","h","e","a","d","e","r">>,
    rowheader |-> <<"r","o","w","h","e","a","d","e","r">>,
    WebRoot |-> <<"W","e","b","R","o","o","t">>,
    RootWebArea |-> <<"R","o","o","t","W","e","b","A","r","e","a">>,
    MenuListPopup |-> <<"M","e","n","u","L","i","s","t","P","o","p","u","p">>,
    dialog |-> <<"d","i","a","l","o","g">>,
    radiogroup |-> <<"r","a","d","i","o","g","r","o","u","p">>,
    WebArea |-> <<"W","e","b","A","r","e","a">>,
    Iframe |-> <<"I","f","r","a","m","e">>,
    generic |-> <<"g","e","n","e","r","i","c">>,
    banner |-> <<"b","a","n","n","e","r">>,
    navigation |-> <<"n","a","v","i","g","a","t","i","o","n">>,
    contentinfo |-> <<"c","o","n","t","e","n","t","i","n","f","o">>,
    complementary |-> <<"c","o","m","p","l","e","m","e","n","t","a","r","y">>,
    region |-> <<"r","e","g","i","o","n">>,
    search |-> <<"s","e","a","r","c","h">>,
    image |-> <<"i","m","a","g","e">>,
    separator |-> <<"s","e","p","a","r","a","t","o","r">>,
    LabelText |-> <<"L","a","b","e","l","T","e","x","t">>,
    strong |-> <<"s","t","r","o","n","g">>,
    DisclosureTriangle |-> <<"D","i","s","c","l","o","s","u","r","e","T","r","i","a","n","g","l","e">>,
    a |-> <<"a">>,
    input |-> <<"i","n","p","u","t">>,
    select |-> <<"s","e","l","e","c","t">>,
    h1 |-> <<"h","1">>,
    h2 |-> <<"h","2">>,
    h3 |-> <<"h","3">>,
    h4 |-> <<"h","4">>,
    h5 |-> <<"h","5">>,
    h6 |-> <<"h","6">>,
    p |-> <<"p">>,
    ul |-> <<"u","l">>,
    li |-> <<"l","i">>,
    tr |-> <<"t","r">>,
    td |-> <<"t","d">>,
    th |-> <<"t","h">>,
    body |-> <<"b","o","d","y">>,
    menu |-> <<"m","e","n","u">>,
    div |-> <<"d","i","v">>,
    fieldset |-> <<"f","i","e","l","d","s","e","t">>,
    iframe |-> <<"i","f","r","a","m","e">>,
    header |-> <<"h","e","a","d","e","r">>,
    nav |-> <<"n","a","v">>,
    footer |-> <<"f","o","o","t","e","r">>,
    aside |-> <<"a","s","i","d","e">>,
    section |-> <<"s","e","c","t","i","o","n">>,
    img |-> <<"i","m","g">>,
    hr |-> <<"h","r">>,
    label |-> <<"l","a","b","e","l">>,
    b |-> <<"b">>,
    details |-> <<"d","e","t","a","i","l","s">>,
    textarea |-> <<"t","e","x","t","a","r","e","a">>,
    area |-> <<"a","r","e","a">>,
    base |-> <<"b","a","s","e">>,
    br |-> <<"b","r">>,
    col |-> <<"c","o","l">>,
    embed |-> <<"e","m","b","e","d">>,
    meta |-> <<"m","e","t","a">>,
    param |-> <<"p","a","r","a","m">>,
    source |-> <<"s","o","u","r","c","e">>,
    track |-> <<"t","r","a","c","k">>,
    wbr |-> <<"w","b","r">>,
    StaticText |-> <<"S","t","a","t","i","c","T","e","x","t">>,
    LayoutTable |-> <<"L","a","y","o","u","t","T","a","b","l","e">>,
    LayoutTableRow |-> <<"L","a","y","o","u","t","T","a","b","l","e","R","o","w">>,
    LayoutTableCell |-> <<"L","a","y","o","u","t","T","a","b","l","e","C","e","l","l">>,
    LineBreak |-> <<"L","i","n","e","B","r","e","a","k">>,
    InlineTextBox |-> <<"I","n","l","i","n","e","T","e","x","t","B","o","x">>,
    presentation |-> <<"p","r","e","s","e","n","t","a","t","i","o","n">>,
    none |-> <<"n","o","n","e">>,
    ListMarker |-> <<"L","i","s","t","M","a","r","k","e","r">>,
    group |-> <<"g","r","o","u","p">>,
    button |-> <<"b","u","t","t","o","n">>,
    hidden |-> <<"h","i","d","d","e","n">>,
    true |-> <<"t","r","u","e">>,
    focusable |-> <<"f","o","c","u","s","a","b","l","e">>,
    click |-> <<"c","l","i","c","k">>,
    mousedown |-> <<"m","o","u","s","e","d","o","w","n">>,
    mouseup |-> <<"m","o","u","s","e","u","p">>,
    keydown |-> <<"k","e","y","d","o","w","n">>,
    level |-> <<"l","e","v","e","l">>,
    editable |-> <<"e","d","i","t","a","b","l","e">>,
    richtext |-> <<"r","i","c","h","t","e","x","t">>,
    multiline |-> <<"m","u","l","t","i","l","i","n","e">>,
    plaintext |-> <<"p","l","a","i","n","t","e","x","t">>,
    disabled |-> <<"d","i","s","a","b","l","e","d">>,
    readonly |-> <<"r","e","a","d","o","n","l","y">>,
    required |-> <<"r","e","q","u","i","r","e","d">>,
    checked |-> <<"c","h","e","c","k","e","d">>,
    selected |-> <<"s","e","l","e","c","t","e","d">>,
    busy |-> <<"b","u","s","y">>,
    invalid |-> <<"i","n","v","a","l","i","d">>,
    atomic |-> <<"a","t","o","m","i","c">>,
    multiselectable |-> <<"m","u","l","t","i","s","e","l","e","c","t","a","b","l","e">>,
    expanded |-> <<"e","x","p","a","n","d","e","d">>,
    modal |-> <<"m","o","d","a","l">>,
    pressed |-> <<"p","r","e","s","s","e","d">>,
    placeholder |-> <<"p","l","a","c","e","h","o","l","d","e","r">>,
    keyshortcuts |-> <<"k","e","y","s","h","o","r","t","c","u","t","s">>,
    roledescription |-> <<"r","o","l","e","d","e","s","c","r","i","p","t","i","o","n">>,
    live |-> <<"l","i","v","e">>,
    relevant |-> <<"r","e","l","e","v","a","n","t">>,
    autocomplete |-> <<"a","u","t","o","c","o","m","p","l","e","t","e">>,
    hasPopup |-> <<"h","a","s","P","o","p","u","p">>,
    valuemin |-> <<"v","a","l","u","e","m","i","n">>,
    valuemax |-> <<"v","a","l","u","e","m","a","x">>,
    valuetext |-> <<"v","a","l","u","e","t","e","x","t">>,
    errormessage |-> <<"e","r","r","o","r","m","e","s","s","a","g","e">>,
    focused |-> <<"f","o","c","u","s","e","d">>,
    url |-> <<"u","r","l">>,
    hiddenRoot |-> <<"h","i","d","d","e","n","R","o","o","t">>,
    pointer |-> <<"p","o","i","n","t","e","r">>,
    auto |-> <<"a","u","t","o">>,
    data_ |-> <<"d","a","t","a",":">>,
    blob_ |-> <<"b","l","o","b",":">>,
    file_ |-> <<"f","i","l","e",":">>,
    javascript_ |-> <<"j","a","v","a","s","c","r","i","p","t",":">>,
    hash |-> <<"#">>,
    quot |-> <<"&","q","u","o","t",";">>,
    lt |-> <<"&","l","t",";">>,
    gt |-> <<"&","g","t",";">>,
    br_tag |-> <<"<","b","r",">">>,
    aria_ |-> <<"a","r","i","a","-">>,
    aria_label |-> <<"a","r","i","a","-","l","a","b","e","l">>,
    alt |-> <<"a","l","t">>,
    href |-> <<"h","r","e","f">>,
    src |-> <<"s","r","c">>,
    value |-> <<"v","a","l","u","e">>,
    role |-> <<"r","o","l","e">>,
    node |-> <<"n","o","d","e">>,
    type_checkbox |-> <<"t","y","p","e","=","\"","c","h","e","c","k","b","o","x","\"">>,
    type_radio |-> <<"t","y","p","e","=","\"","r","a","d","i","o","\"">>,
    type_search |-> <<"t","y","p","e","=","\"","s","e","a","r","c","h","\"">>,
    type_range |-> <<"t","y","p","e","=","\"","r","a","n","g","e","\"">>,
    type_number |-> <<"t","y","p","e","=","\"","n","u","m","b","e","r","\"">>,
    aria_current_true |-> <<"a","r","i","a","-","c","u","r","r","e","n","t","=","\"","t","r","u","e","\"">>,
    contenteditable_true |-> <<"c","o","n","t","e","n","t","e","d","i","t","a","b","l","e","=","\"","t","r","u","e","\"">>,
    aria_hidden_true |-> <<"a","r","i","a","-","h","i","d","d","e","n","=","\"","t","r","u","e","\"">>,
    eq_true |-> <<"=","\"","t","r","u","e","\"">>,
    application_pdf |-> <<"a","p","p","l","i","c","a","t","i","o","n","/","p","d","f">>,
    application_x_pdf |-> <<"a","p","p","l","i","c","a","t","i","o","n","/","x","-","p","d","f">>,
    application_x_google_chrome_pdf |-> <<"a","p","p","l","i","c","a","t","i","o","n","/","x","-","g","o","o","g","l","e","-","c","h","r","o","m","e","-","p","d","f">>,
    og_ |-> <<"o","g",":">>,
    description |-> <<"d","e","s","c","r","i","p","t","i","o","n">>,
    META |-> <<"M","E","T","A">>,
    property |-> <<"p","r","o","p","e","r","t","y">>,
    name |-> <<"n","a","m","e">>,
    content |-> <<"c","o","n","t","e","n","t">>
  ]

(***************************************************************************)
(* JavaScript string and array primitives.                                *)
(***************************************************************************)
\* arr[i] for a 0-based index; Undefined when out of range
Undefined == -1000

At(arr, i) == IF i >= 0 /\ i < Len(arr) THEN arr[i + 1] ELSE Undefined

\* String.prototype.startsWith
StartsWith(s, p) == Len(s) >= Len(p) /\ SubSeq(s, 1, Len(p)) = p

\* String.prototype.includes
Includes(s, p) == \E i \in 0..(Len(s) - Len(p)) : SubSeq(s, i + 1, i + Len(p)) = p

\* s.replace(p, r) for a string pattern: the first occurrence only
ReplaceFirst(s, p, r) ==
  IF Includes(s, p)
  THEN LET i == CHOOSE i \in 0..(Len(s) - Len(p)) :
                  /\ SubSeq(s, i + 1, i + Len(p)) = p
                  /\ \A j \in 0..(i - 1) : SubSeq(s, j + 1, j + Len(p)) # p
       IN  SubSeq(s, 1, i) \o r \o SubSeq(s, i + Len(p) + 1, Len(s))
  ELSE s

\* index (1-based) of the first occurrence of character c in s, 0 when absent
RECURSIVE IndexOfChar(_, _, _)
IndexOfChar(s, c, from) ==
  IF from > Len(s) THEN 0
  ELSE IF s[from] = c THEN from
  ELSE IndexOfChar(s, c, from + 1)

UpperChars == <<"A","B","C","D","E","F","G","H","I","J","K","L","M","N","O","P","Q","R","S","T","U","V","W","X","Y","Z">>
LowerChars == <<"a","b","c","d","e","f","g","h","i","j","k","l","m","n","o","p","q","r","s","t","u","v","w","x","y","z">>

LowerChar(c) == IF \E i \in 1..26 : UpperChars[i] = c
                THEN LowerChars[CHOOSE i \in 1..26 : UpperChars[i] = c] ELSE c
UpperChar(c) == IF \E i \in 1..26 : LowerChars[i] = c
                THEN UpperChars[CHOOSE i \in 1..26 : LowerChars[i] = c] ELSE c

\* String.prototype.toLowerCase / toUpperCase
toLowerCase(s) == [i \in 1..Len(s) |-> LowerChar(s[i])]
toUpperCase(s) == [i \in 1..Len(s) |-> UpperChar(s[i])]

\* the characters matched by \s
IsSpace(c) == c \in {" ", "\t", "\n", "\r"}

\* str.replace(/\s+/g, '')
StripSpaces(s) == SelectSeq(s, LAMBDA c : ~IsSpace(c))

RECURSIVE Join(_, _)
\* Array.prototype.join
Join(parts, sep) ==
  IF parts = <<>> THEN <<>>
  ELSE IF Len(parts) = 1 THEN parts[1]
  ELSE parts[1] \o sep \o Join(Tail(parts), sep)

Digits == <<"0","1","2","3","4","5","6","7","8","9">>
IsDigit(c) == \E i \in 1..10 : Digits[i] = c
DigitVal(c) == (CHOOSE i \in 1..10 : Digits[i] = c) - 1

RECURSIVE IntToStr(_)
\* String(n) for a non-negative integer
IntToStr(n) == IF n < 10 THEN <<Digits[n + 1]>> ELSE IntToStr(n \div 10) \o <<Digits[(n % 10) + 1]>>

RECURSIVE ParseDigits(_, _, _)
ParseDigits(s, i, acc) ==
  IF i <= Len(s) /\ IsDigit(s[i]) THEN ParseDigits(s, i + 1, acc * 10 + DigitVal(s[i])) ELSE acc

RECURSIVE SkipSpaces(_, _)
SkipSpaces(s, i) == IF i <= Len(s) /\ IsSpace(s[i]) THEN SkipSpaces(s, i + 1) ELSE i

\* parseInt(s) || dflt : NaN and 0 both give dflt
parseIntOr(s, dflt) ==
  LET i == SkipSpaces(s, 1)
      neg == i <= Len(s) /\ s[i] = "-"
      j == IF i <= Len(s) /\ s[i] \in {"-", "+"} THEN i + 1 ELSE i
      n == ParseDigits(s, j, 0)
  IN  IF n = 0 THEN dflt ELSE IF neg THEN 0 - n ELSE n

(***************************************************************************)
(* Accessibility tree values.  An AxValue is [type, value]; a field the   *)
(* node does not carry is NoVal.  The value of a "string" is a character  *)
(* sequence, of a "boolean" a BOOLEAN, of an "integer" a natural number.  *)
(***************************************************************************)
NoVal == [type |-> "absent", value |-> <<>>]
StrVal(s) == [type |-> "string", value |-> s]
BoolVal(b) == [type |-> "boolean", value |-> b]
IntVal(n) == [type |-> "integer", value |-> n]

\* String(value || '')
JsString(v) ==
  CASE v.type = "boolean" -> IF v.value THEN Lit.true ELSE <<>>
    [] v.type = "integer" -> IF v.value = 0 THEN <<>> ELSE IntToStr(v.value)
    [] OTHER -> v.value

getAxNodeValue(axValue) ==
  IF axValue.type = "absent" \/ axValue.type = "valueUndefined" THEN <<>> ELSE JsString(axValue)

getAxNodeProperty(axNode, propertyName) ==
  LET props == axNode.properties
      hits == {i \in 1..Len(props) : props[i].name = propertyName}
  IN  IF hits = {} THEN <<>>
      ELSE getAxNodeValue(props[CHOOSE i \in hits : \A j \in hits : i <= j].value)

\* Maps AXTree roles to HTML tags.
AX_ROLE_TO_HTML_TAG ==
  << <<Lit.link, Lit.a>>, <<Lit.checkbox, Lit.input>>, <<Lit.radio, Lit.input>>,
     <<Lit.textbox, Lit.input>>, <<Lit.searchbox, Lit.input>>, <<Lit.switch, Lit.input>>,
     <<Lit.slider, Lit.input>>, <<Lit.spinbutton, Lit.input>>, <<Lit.combobox, Lit.select>>,
     <<Lit.heading, Lit.h2>>, <<Lit.paragraph, Lit.p>>, <<Lit.list, Lit.ul>>,
     <<Lit.listitem, Lit.li>>, <<Lit.row, Lit.tr>>, <<Lit.cell, Lit.td>>,
     <<Lit.columnheader, Lit.th>>, <<Lit.rowheader, Lit.th>>, <<Lit.WebRoot, Lit.body>>,
     <<Lit.RootWebArea, Lit.body>>, <<Lit.MenuListPopup, Lit.menu>>, <<Lit.dialog, Lit.div>>,
     <<Lit.radiogroup, Lit.fieldset>>, <<Lit.WebArea, Lit.iframe>>, <<Lit.Iframe, Lit.iframe>>,
     <<Lit.generic, Lit.div>>, <<Lit.banner, Lit.header>>, <<Lit.navigation, Lit.nav>>,
     <<Lit.contentinfo, Lit.footer>>, <<Lit.complementary, Lit.aside>>,
     <<Lit.region, Lit.section>>, <<Lit.search, Lit.div>>, <<Lit.image, Lit.img>>,
     <<Lit.separator, Lit.hr>>, <<Lit.LabelText, Lit.label>>, <<Lit.strong, Lit.b>>,
     <<Lit.DisclosureTriangle, Lit.details>>, <<<<"d","e","f","a","u","l","t">>, Lit.div>> >>

\* table[key] for an object literal given as pairs, <<>> (undefined) when it has no such key
PairLookup(table, key) ==
  IF \E i \in 1..Len(table) : table[i][1] = key
  THEN table[CHOOSE i \in 1..Len(table) : table[i][1] = key][2]
  ELSE <<>>

\* AX_ROLE_TO_HTML_TAG[role]
RoleTag(role) == PairLookup(AX_ROLE_TO_HTML_TAG, role)

\* a || b on strings
OrElse(a, b) == IF a # <<>> THEN a ELSE b

\* HTML tags that are self-closing.
SELF_CLOSING_TAGS ==
  {Lit.area, Lit.base, Lit.br, Lit.col, Lit.embed, Lit.hr, Lit.img, Lit.input, Lit.link,
   Lit.meta, Lit.param, Lit.source, Lit.track, Lit.wbr}

AX_NODE_ID_ATTRIBUTE == Lit.node

HeadingTags == {Lit.h1, Lit.h2, Lit.h3, Lit.h4, Lit.h5, Lit.h6}

\* getTagNameForAxNode without the level override: every heading is the table's h2
getTagNameForAxNode_IgnoresLevel(role, axNode, hasParent, parentAxNode) ==
  LET tag == OrElse(RoleTag(role), Lit.div)
      isParentEditable == hasParent /\ getAxNodeProperty(parentAxNode, Lit.editable) # <<>>
      isNodeEditable == getAxNodeProperty(axNode, Lit.editable)
  IN  IF ~isParentEditable /\ isNodeEditable # <<>>
      THEN IF isNodeEditable = Lit.richtext THEN Lit.div
           ELSE IF getAxNodeProperty(axNode, Lit.multiline) # <<>> THEN Lit.textarea
           ELSE Lit.input
      ELSE tag

getTagNameForAxNode(role, axNode, hasParent, parentAxNode) ==
  LET tag0 == OrElse(RoleTag(role), Lit.div)
      level == parseIntOr(getAxNodeProperty(axNode, Lit.level), 2)
      tag == IF role = Lit.heading /\ level >= 1 /\ level <= 6
             THEN <<"h">> \o IntToStr(level) ELSE tag0
      isParentEditable == hasParent /\ getAxNodeProperty(parentAxNode, Lit.editable) # <<>>
      isNodeEditable == getAxNodeProperty(axNode, Lit.editable)
  IN  IF ~isParentEditable /\ isNodeEditable # <<>>
      THEN IF isNodeEditable = Lit.richtext THEN Lit.div
           ELSE IF getAxNodeProperty(axNode, Lit.multiline) # <<>> THEN Lit.textarea
           ELSE Lit.input
      ELSE tag

\* true when a role attribute must be written (the role is not implied by the tag)
isRoleRedundant(tag, role) ==
  ~( \/ role = tag
     \/ RoleTag(role) = tag
     \/ (tag = Lit.select /\ role = Lit.combobox)
     \/ (tag = Lit.textarea /\ role = Lit.textbox)
     \/ (tag \in HeadingTags /\ role = Lit.heading) )

RECURSIVE escapeHTML(_)
escapeHTML(str) ==
  IF str = <<>> THEN <<>>
  ELSE (CASE Head(str) = "\"" -> Lit.quot
          [] Head(str) = "<" -> Lit.lt
          [] Head(str) = ">" -> Lit.gt
          [] OTHER -> <<Head(str)>>) \o escapeHTML(Tail(str))

\* name="value"
Attr(name, value) == name \o <<"=", "\"">> \o value \o <<"\"">>

BareBooleanProps == {Lit.disabled, Lit.readonly, Lit.required, Lit.checked, Lit.selected}
AriaBooleanProps ==
  {Lit.busy, Lit.invalid, Lit.atomic, Lit.multiselectable, Lit.expanded, Lit.modal, Lit.pressed}
AriaStringProps ==
  {Lit.placeholder, Lit.keyshortcuts, Lit.roledescription, Lit.live, Lit.relevant,
   Lit.autocomplete, Lit.hasPopup, Lit.valuemin, Lit.valuemax, Lit.valuetext, Lit.errormessage}

\* case 'url' without the javascript: rewrite
UrlAttributes_NoJavascriptRewrite(axNode, value) ==
  IF /\ value # <<>>
     /\ ~StartsWith(value, Lit.data_)
     /\ ~StartsWith(value, Lit.blob_)
     /\ ~StartsWith(value, Lit.file_)
  THEN IF getAxNodeValue(axNode.role) = Lit.image
       THEN <<Attr(Lit.src, escapeHTML(value))>>
       ELSE <<Attr(Lit.href, escapeHTML(value))>>
  ELSE <<>>

\* case 'url' of addAriaProperties
UrlAttributes(axNode, value) ==
  IF /\ value # <<>>
     /\ ~StartsWith(value, Lit.data_)
     /\ ~StartsWith(value, Lit.blob_)
     /\ ~StartsWith(value, Lit.file_)
  THEN LET href == IF StartsWith(value, Lit.javascript_) THEN Lit.hash ELSE value
       IN  IF getAxNodeValue(axNode.role) = Lit.image
           THEN <<Attr(Lit.src, escapeHTML(href))>>
           ELSE <<Attr(Lit.href, escapeHTML(href))>>
  ELSE <<>>

\* the attributes one property contributes (the body of the switch statement)
PropertyAttributes(axNode, prop, hasParent, parentAxNode) ==
  LET name == prop.name
      value == getAxNodeValue(prop.value)
  IN  CASE name \in BareBooleanProps -> IF value = Lit.true THEN <<name>> ELSE <<>>
        [] name \in AriaBooleanProps ->
             IF value = Lit.true THEN <<Lit.aria_ \o name \o Lit.eq_true>> ELSE <<>>
        [] name \in AriaStringProps ->
             IF value # <<>> THEN <<Attr(Lit.aria_ \o toLowerCase(name), value)>> ELSE <<>>
        [] name = Lit.focused -> IF value = Lit.true THEN <<Lit.aria_current_true>> ELSE <<>>
        [] name = Lit.url -> UrlAttributes(axNode, value)
        [] name = Lit.editable ->
             IF /\ value = Lit.richtext
                /\ ~(hasParent /\ getAxNodeProperty(parentAxNode, Lit.editable) # <<>>)
             THEN <<Lit.contenteditable_true>> ELSE <<>>
        [] name = Lit.hiddenRoot -> IF value = Lit.true THEN <<Lit.aria_hidden_true>> ELSE <<>>
        [] OTHER -> <<>>

RECURSIVE AriaLoop(_, _, _, _)
AriaLoop(axNode, i, hasParent, parentAxNode) ==
  IF i > Len(axNode.properties) THEN <<>>
  ELSE PropertyAttributes(axNode, axNode.properties[i], hasParent, parentAxNode)
         \o AriaLoop(axNode, i + 1, hasParent, parentAxNode)

\* the attributes array after addAriaProperties(axNode, [], parentAxNode)
addAriaProperties(axNode, hasParent, parentAxNode) == AriaLoop(axNode, 1, hasParent, parentAxNode)

RECURSIVE StripTags(_)
\* str.replace(/<[^>]*>/g, '')
StripTags(s) ==
  IF s = <<>> THEN <<>>
  ELSE IF Head(s) = "<" /\ IndexOfChar(s, ">", 2) # 0
       THEN StripTags(SubSeq(s, IndexOfChar(s, ">", 2) + 1, Len(s)))
       ELSE <<Head(s)>> \o StripTags(Tail(s))

RECURSIVE ExistingLabels(_)
\* the second groups of all matches of /(aria-label|alt)="([^"]*)"/g, joined
ExistingLabels(s) ==
  IF s = <<>> THEN <<>>
  ELSE LET open1 == Lit.aria_label \o <<"=", "\"">>
           open2 == Lit.alt \o <<"=", "\"">>
           open == IF StartsWith(s, open1) THEN open1
                   ELSE IF StartsWith(s, open2) THEN open2 ELSE <<>>
           close == IF open = <<>> THEN 0 ELSE IndexOfChar(s, "\"", Len(open) + 1)
       IN  IF close # 0
           THEN SubSeq(s, Len(open) + 1, close - 1) \o ExistingLabels(SubSeq(s, close + 1, Len(s)))
           ELSE ExistingLabels(Tail(s))

isRedundantLabel(tag, label, childHtml) ==
  IF tag \in SELF_CLOSING_TAGS THEN TRUE
  ELSE LET childText == toLowerCase(StripSpaces(StripTags(childHtml)))
           existingLabels == toLowerCase(StripSpaces(ExistingLabels(childHtml)))
           normalizedLabel == toLowerCase(StripSpaces(label))
       IN  ~Includes(childText, normalizedLabel) /\ ~Includes(existingLabels, normalizedLabel)

\* isNodeInViewport without the test for a box below the viewport
isNodeInViewport_IgnoresBelow(box, viewport, checkHorizontal) ==
  LET noVerticalOverlap == box.y + box.height <= 0
      noHorizontalOverlap == box.x >= viewport.width \/ box.x + box.width <= 0
  IN  IF noVerticalOverlap THEN FALSE
      ELSE IF checkHorizontal THEN ~noHorizontalOverlap
      ELSE TRUE

\* box: [x, y, width, height]; called with two arguments only, so checkHorizontal is false
isNodeInViewport(box, viewport, checkHorizontal) ==
  LET noVerticalOverlap == box.y >= viewport.height \/ box.y + box.height <= 0
      noHorizontalOverlap == box.x >= viewport.width \/ box.x + box.width <= 0
  IN  IF noVerticalOverlap THEN FALSE
      ELSE IF checkHorizontal THEN ~noHorizontalOverlap
      ELSE TRUE

(***************************************************************************)
(* axTreeToHtml.  An AxNode is                                            *)
(*   [nodeId, parentId, childIds, backendDOMNodeId, ignored, role, name,  *)
(*    value, properties]                                                  *)
(* with parentId = "" and backendDOMNodeId = 0 when the field is absent.  *)
(* cursorPointerNodes and eventListenerMap are functions on backend node  *)
(* ids; a viewport filter is [present, viewportInfo, nodeBoundingBoxes]   *)
(* with nodeBoundingBoxes the Map's entries in insertion order.  The      *)
(* channel gives the response of every request parseIframe can make.      *)
(***************************************************************************)
\* nodeMap.has(id) / nodeMap.get(id): the last node of the array with that id wins
HasNode(axNodes, id) == \E i \in 1..Len(axNodes) : axNodes[i].nodeId = id
GetNode(axNodes, id) ==
  axNodes[CHOOSE i \in 1..Len(axNodes) :
            /\ axNodes[i].nodeId = id
            /\ \A j \in 1..Len(axNodes) : axNodes[j].nodeId = id => j <= i]

\* Set.prototype.add on an insertion-ordered set
SetAdd(set, x) == IF \E i \in 1..Len(set) : set[i] = x THEN set ELSE Append(set, x)
SetHas(set, x) == \E i \in 1..Len(set) : set[i] = x

RECURSIVE MarkAncestors(_, _, _)
\* while (currentNode?.parentId) { add(parentId); currentNode = nodeMap.get(parentId) }
MarkAncestors(axNodes, currentId, visible) ==
  IF HasNode(axNodes, currentId) /\ GetNode(axNodes, currentId).parentId # ""
  THEN MarkAncestors(axNodes, GetNode(axNodes, currentId).parentId,
                     SetAdd(visible, GetNode(axNodes, currentId).parentId))
  ELSE visible

RECURSIVE MarkDirectlyVisible(_, _, _, _)
\* the loop over nodeBoundingBoxes.entries()
MarkDirectlyVisible(axNodes, viewportFilter, i, visible) ==
  IF i > Len(viewportFilter.nodeBoundingBoxes) THEN visible
  ELSE LET e == viewportFilter.nodeBoundingBoxes[i]
       IN  IF isNodeInViewport(e.box, viewportFilter.viewportInfo, FALSE)
           THEN MarkDirectlyVisible(axNodes, viewportFilter, i + 1,
                                    MarkAncestors(axNodes, e.nodeId, SetAdd(visible, e.nodeId)))
           ELSE MarkDirectlyVisible(axNodes, viewportFilter, i + 1, visible)

RECURSIVE MarkComboboxQueue(_, _, _)
\* the queue loop that marks the descendants of a visible combobox
MarkComboboxQueue(axNodes, queue, visible) ==
  IF queue = <<>> THEN visible
  ELSE LET descendantId == Head(queue)
       IN  IF descendantId # "" /\ ~SetHas(visible, descendantId)
           THEN MarkComboboxQueue(
                  axNodes,
                  Tail(queue) \o (IF HasNode(axNodes, descendantId)
                                  THEN GetNode(axNodes, descendantId).childIds ELSE <<>>),
                  Append(visible, descendantId))
           ELSE MarkComboboxQueue(axNodes, Tail(queue), visible)

RECURSIVE MarkComboboxes(_, _, _, _)
\* the loop over nodesToProcess
MarkComboboxes(axNodes, nodesToProcess, i, visible) ==
  IF i > Len(nodesToProcess) THEN visible
  ELSE LET nodeId == nodesToProcess[i]
       IN  IF /\ HasNode(axNodes, nodeId)
              /\ getAxNodeValue(GetNode(axNodes, nodeId).role) = Lit.combobox
           THEN MarkComboboxes(axNodes, nodesToProcess, i + 1,
                               MarkComboboxQueue(axNodes, GetNode(axNodes, nodeId).childIds, visible))
           ELSE MarkComboboxes(axNodes, nodesToProcess, i + 1, visible)

\* visibleNodeIds as axTreeToHtml computes it before the walk
VisibleNodeIds(axNodes, viewportFilter) ==
  IF ~viewportFilter.present THEN <<>>
  ELSE LET direct == MarkDirectlyVisible(axNodes, viewportFilter, 1, <<>>)
       IN  MarkComboboxes(axNodes, direct, 1, direct)

\* what buildHtmlRecursive and buildChildrenHtml close over inside one axTreeToHtml call
Closure(axNodes, cursorPointerNodes, eventListenerMap, frameContextId, viewportFilter, channel) ==
  [axNodes |-> axNodes,
   cursorPointerNodes |-> cursorPointerNodes,
   eventListenerMap |-> eventListenerMap,
   frameContextId |-> frameContextId,
   viewportFilter |-> viewportFilter,
   hasViewportFilter |-> viewportFilter.present,
   visibleNodeIds |-> VisibleNodeIds(axNodes, viewportFilter),
   channel |-> channel]

ClickTypes == {Lit.click, Lit.mousedown, Lit.mouseup}

isCursorPointer(c, axNode) == axNode.backendDOMNodeId \in DOMAIN c.cursorPointerNodes

hasClickListener(c, axNode) ==
  /\ axNode.backendDOMNodeId \in DOMAIN c.eventListenerMap
  /\ \E i \in 1..Len(c.eventListenerMap[axNode.backendDOMNodeId]) :
       c.eventListenerMap[axNode.backendDOMNodeId][i] \in ClickTypes

isInteractiveElement(c, axNode) == isCursorPointer(c, axNode) \/ hasClickListener(c, axNode)

IgnoredRoles ==
  {Lit.LayoutTable, Lit.LayoutTableRow, Lit.LayoutTableCell, Lit.LineBreak, Lit.InlineTextBox,
   Lit.presentation, Lit.none}

isIgnoredNode(role) == role \in IgnoredRoles

\* isGeneric without the group role
isGeneric_GenericOnly(role) == role = Lit.generic

isGeneric(role) == role = Lit.generic \/ role = Lit.group

\* the type attribute of an input tag
InputTypeAttributes(tag, role) ==
  IF tag # Lit.input THEN <<>>
  ELSE IF role = Lit.checkbox \/ role = Lit.switch THEN <<Lit.type_checkbox>>
  ELSE IF role = Lit.radio THEN <<Lit.type_radio>>
  ELSE IF role = Lit.searchbox THEN <<Lit.type_search>>
  ELSE IF role = Lit.slider THEN <<Lit.type_range>>
  ELSE IF role = Lit.spinbutton THEN <<Lit.type_number>>
  ELSE <<>>

ValueAttributes(axNode, tag) ==
  IF axNode.value.type # "absent" /\ tag # Lit.textarea /\ tag # Lit.div
     /\ getAxNodeValue(axNode.value) # <<>>
  THEN <<Attr(Lit.value, escapeHTML(getAxNodeValue(axNode.value)))>>
  ELSE <<>>

RoleAttributes(tag, role) ==
  IF ~isIgnoredNode(role) /\ ~isGeneric(role) /\ role # <<>> /\ isRoleRedundant(tag, role)
  THEN <<Attr(Lit.role, role)>>
  ELSE <<>>

\* the tag chosen for a node that is emitted
ChooseTag(c, axNode, role, hasParent, parentNode) ==
  IF isCursorPointer(c, axNode) THEN c.cursorPointerNodes[axNode.backendDOMNodeId]
  ELSE IF ~isInteractiveElement(c, axNode) /\ isIgnoredNode(role) THEN Lit.div
  ELSE getTagNameForAxNode(role, axNode, hasParent, parentNode)

\* the node="..." attribute of a focusable or interactive node with a DOM binding
NodeIdAttributes(c, axNode) ==
  IF /\ (getAxNodeProperty(axNode, Lit.focusable) = Lit.true \/ isInteractiveElement(c, axNode))
     /\ axNode.backendDOMNodeId # 0
  THEN <<Attr(AX_NODE_ID_ATTRIBUTE,
              IF c.frameContextId # <<>>
              THEN c.frameContextId \o <<":">> \o IntToStr(axNode.backendDOMNodeId)
              ELSE IntToStr(axNode.backendDOMNodeId))>>
  ELSE <<>>

\* the aria-label / alt attribute of a label that is not written as text
LabelAttributes(tag, label, labelAsText, kidsHtml) ==
  IF label # <<>> /\ ~labelAsText /\ isRedundantLabel(tag, label, kidsHtml)
  THEN IF tag = Lit.img THEN <<Attr(Lit.alt, escapeHTML(label))>>
       ELSE <<Attr(Lit.aria_label, escapeHTML(label))>>
  ELSE <<>>

AttrString(attributes) ==
  IF attributes # <<>> THEN <<" ">> \o Join(attributes, <<" ">>) ELSE <<>>

\* the emission gate, then the tag with the node marker appended to the attributes
WriteTag(tag, childrenHtml, attributes, nodeIdAttributes) ==
  IF childrenHtml = <<>> /\ attributes = <<>> THEN <<>>
  ELSE IF tag \in SELF_CLOSING_TAGS
  THEN <<"<">> \o tag \o AttrString(attributes \o nodeIdAttributes) \o <<"/", ">">>
  ELSE IF tag = Lit.iframe /\ childrenHtml # <<>> THEN childrenHtml
  ELSE <<"<">> \o tag \o AttrString(attributes \o nodeIdAttributes) \o <<">">>
         \o childrenHtml \o <<"<", "/">> \o tag \o <<">">>

\* what buildHtmlRecursive returns once the children html is known
EmitNode(c, axNode, tag, attributes0, kidsHtml) ==
  LET label == getAxNodeValue(axNode.name)
      labelAsText == label # <<>> /\ kidsHtml = <<>> /\ tag \notin SELF_CLOSING_TAGS
  IN  WriteTag(tag,
               IF labelAsText THEN label ELSE kidsHtml,
               attributes0 \o LabelAttributes(tag, label, labelAsText, kidsHtml),
               NodeIdAttributes(c, axNode))

maxAttempts == 4

\* the response the k-th call of getTreeFn gets from a scripted list of responses
Response(responses, k) == responses[IF k <= Len(responses) THEN k ELSE Len(responses)]

RECURSIVE getPopulatedAxTree(_, _, _)
\* [ok, nodes]: ok = FALSE when a fetch threw
getPopulatedAxTree(responses, attempts, lastResult) ==
  IF attempts < maxAttempts
  THEN LET r == Response(responses, attempts + 1)
       IN  IF ~r.ok THEN [ok |-> FALSE, nodes |-> <<>>]
           ELSE IF Len(r.nodes) > 2 THEN [ok |-> TRUE, nodes |-> r.nodes]
           ELSE getPopulatedAxTree(responses, attempts + 1, r.nodes)
  ELSE [ok |-> TRUE, nodes |-> lastResult]

RECURSIVE buildHtmlRecursive(_, _, _)
RECURSIVE ChildrenLoop(_, _, _, _, _, _)
RECURSIVE parseIframe(_, _)
RECURSIVE axTreeToHtml(_, _, _, _, _, _)

\* buildChildrenHtml: [html, visited]
buildChildrenHtml(c, axNode, visited) == ChildrenLoop(c, axNode.childIds, 1, <<>>, FALSE, visited)

\* the loop of buildChildrenHtml with lastChildWasInline cleared by an empty child
ChildrenLoop_EmptyChildResets(c, childIds, i, childrenHtmlParts, lastChildWasInline, visited) ==
  IF i > Len(childIds) THEN [html |-> Join(childrenHtmlParts, <<>>), visited |-> visited]
  ELSE IF ~HasNode(c.axNodes, childIds[i])
       THEN ChildrenLoop(c, childIds, i + 1, childrenHtmlParts, lastChildWasInline, visited)
       ELSE LET r == buildHtmlRecursive(c, GetNode(c.axNodes, childIds[i]), visited)
                isInline == ~StartsWith(r.html, <<"<">>)
            IN  IF r.html # <<>>
                THEN ChildrenLoop(
                       c, childIds, i + 1,
                       childrenHtmlParts
                         \o (IF isInline /\ lastChildWasInline /\ Len(childrenHtmlParts) > 0
                             THEN <<Lit.br_tag>> ELSE <<>>)
                         \o <<r.html>>,
                       isInline, r.visited)
                ELSE ChildrenLoop(c, childIds, i + 1, childrenHtmlParts, FALSE, r.visited)

ChildrenLoop(c, childIds, i, childrenHtmlParts, lastChildWasInline, visited) ==
  IF i > Len(childIds) THEN [html |-> Join(childrenHtmlParts, <<>>), visited |-> visited]
  ELSE IF ~HasNode(c.axNodes, childIds[i])
       THEN ChildrenLoop(c, childIds, i + 1, childrenHtmlParts, lastChildWasInline, visited)
       ELSE LET r == buildHtmlRecursive(c, GetNode(c.axNodes, childIds[i]), visited)
                isInline == ~StartsWith(r.html, <<"<">>)
            IN  IF r.html # <<>>
                THEN ChildrenLoop(
                       c, childIds, i + 1,
                       childrenHtmlParts
                         \o (IF isInline /\ lastChildWasInline /\ Len(childrenHtmlParts) > 0
                             THEN <<Lit.br_tag>> ELSE <<>>)
                         \o <<r.html>>,
                       isInline, r.visited)
                ELSE ChildrenLoop(c, childIds, i + 1, childrenHtmlParts, lastChildWasInline,
                                  r.visited)

\* from the iframe branch to the return of buildHtmlRecursive
RenderNode(c, axNode, visited, tag, attributes) ==
  IF tag = Lit.iframe
  THEN [html |-> EmitNode(c, axNode, tag, attributes, parseIframe(c, axNode)),
        visited |-> visited]
  ELSE LET kids == buildChildrenHtml(c, axNode, visited)
       IN  [html |-> EmitNode(c, axNode, tag, attributes, kids.html),
            visited |-> kids.visited]

\* the generic collapse, then the attributes that depend on the tag
CollapseOrRender(c, axNode, visited, role, interactive, attributes0, tag) ==
  IF /\ isGeneric(role)
     /\ attributes0 = <<>>
     /\ getAxNodeValue(axNode.name) = <<>>
     /\ ~interactive
  THEN buildChildrenHtml(c, axNode, visited)
  ELSE RenderNode(c, axNode, visited, tag,
                  attributes0 \o InputTypeAttributes(tag, role)
                    \o ValueAttributes(axNode, tag) \o RoleAttributes(tag, role))

\* buildHtmlRecursive after the node has been entered into visited
VisitNode(c, axNode, visited, role, interactive) ==
  LET hasParent == axNode.parentId # "" /\ axNode.parentId \in DOMAIN visited
      parentNode == IF hasParent THEN visited[axNode.parentId] ELSE axNode
  IN  IF c.hasViewportFilter /\ ~SetHas(c.visibleNodeIds, axNode.nodeId)
      THEN [html |-> <<>>, visited |-> visited]
      ELSE IF role = Lit.StaticText
      THEN [html |-> getAxNodeValue(axNode.name), visited |-> visited]
      ELSE IF getAxNodeProperty(axNode, Lit.hidden) = Lit.true
      THEN [html |-> <<>>, visited |-> visited]
      ELSE IF ~interactive /\ (isIgnoredNode(role) \/ axNode.ignored)
      THEN buildChildrenHtml(c, axNode, visited)
      ELSE IF role = Lit.ListMarker
      THEN [html |-> getAxNodeValue(axNode.name), visited |-> visited]
      ELSE CollapseOrRender(c, axNode, visited, role, interactive,
                            addAriaProperties(axNode, hasParent, parentNode),
                            ChooseTag(c, axNode, role, hasParent, parentNode))

buildHtmlRecursive(c, axNode, visited0) ==
  IF axNode.nodeId \in DOMAIN visited0 THEN [html |-> <<>>, visited |-> visited0]
  ELSE VisitNode(c, axNode, visited0 @@ (axNode.nodeId :> axNode),
                 getAxNodeValue(axNode.role), isInteractiveElement(c, axNode))

\* the html of the frame behind an iframe node, <<>> for null
parseIframe(c, axNode) ==
  IF axNode.backendDOMNodeId = 0 THEN <<>>
  ELSE IF axNode.backendDOMNodeId \notin DOMAIN c.channel.describeNode THEN <<>>
  ELSE
    LET node == c.channel.describeNode[axNode.backendDOMNodeId]
        direct == IF node.frameId \in DOMAIN c.channel.frameTree
                  THEN getPopulatedAxTree(c.channel.frameTree[node.frameId], 0, <<>>)
                  ELSE [ok |-> FALSE, nodes |-> <<>>]
        attached == IF node.frameId \in DOMAIN c.channel.targetTree
                    THEN getPopulatedAxTree(c.channel.targetTree[node.frameId], 0, <<>>)
                    ELSE [ok |-> FALSE, nodes |-> <<>>]
    IN  IF node.frameId = <<>> THEN <<>>
        ELSE IF direct.ok
        THEN axTreeToHtml(direct.nodes, c.cursorPointerNodes, c.eventListenerMap, <<>>,
                          c.viewportFilter, c.channel)
        ELSE IF node.frameId \notin c.channel.targets THEN <<>>
        ELSE IF ~attached.ok THEN <<>>
        ELSE axTreeToHtml(attached.nodes, c.cursorPointerNodes, c.eventListenerMap,
                          node.frameId, c.viewportFilter, c.channel)

axTreeToHtml(axNodes, cursorPointerNodes, eventListenerMap, frameContextId, viewportFilter, channel) ==
  LET roots == {i \in 1..Len(axNodes) : axNodes[i].parentId = ""}
      c == Closure(axNodes, cursorPointerNodes, eventListenerMap, frameContextId,
                   viewportFilter, channel)
  IN  IF roots = {} THEN <<>>
      ELSE buildHtmlRecursive(c, axNodes[CHOOSE i \in roots : \A j \in roots : i <= j],
                              <<>>).html

(***************************************************************************)
(* DOM snapshot decoder (analyzeSnapshot).  A snapshot is                 *)
(*   [strings, documents]; a document is [nodes, layout, textBoxes] with  *)
(*   nodes = [parentIndex, nodeType, nodeName, backendNodeId, attributes],*)
(*   layout = [nodeIndex, styles], textBoxes = [layoutIndex].             *)
(* Maps are functions on the keys they hold.                              *)
(***************************************************************************)
ELEMENT_NODE == 1
TEXT_NODE == 3
DOCUMENT_FRAGMENT_NODE == 11

MapSet(m, k, v) == [x \in (DOMAIN m) \cup {k} |-> IF x = k THEN v ELSE m[x]]
EmptyMap == [x \in {} |-> 0]

\* snapshot.strings[index] ?? dflt
StringOr(snap, index, dflt) ==
  IF index >= 0 /\ index < Len(snap.strings) THEN snap.strings[index + 1] ELSE dflt

\* const getString = (index) => snapshot.strings[index] ?? ''
getString(snap, index) == StringOr(snap, index, <<>>)

RECURSIVE LayoutMapLoop(_, _, _)
\* layoutMap of createSnapshotPropertyMaps: node index -> position in the layout table
LayoutMapLoop(doc, i, layoutMap) ==
  IF i >= Len(doc.layout.nodeIndex) THEN layoutMap
  ELSE LayoutMapLoop(doc, i + 1, MapSet(layoutMap, At(doc.layout.nodeIndex, i), i))

createSnapshotPropertyMaps(doc) == [layoutMap |-> LayoutMapLoop(doc, 0, EmptyMap)]

\* [kept, data]: kept = FALSE when buildNodeData returns undefined
buildNodeData(nodeIndex, doc, maps) ==
  LET nodeType == At(doc.nodes.nodeType, nodeIndex)
      layoutIndex0 == IF nodeIndex \in DOMAIN maps.layoutMap THEN maps.layoutMap[nodeIndex] ELSE -1
      fromTextBoxes == nodeType = TEXT_NODE /\ layoutIndex0 = -1
      layoutIndex == IF fromTextBoxes THEN At(doc.textBoxes.layoutIndex, nodeIndex)
                     ELSE layoutIndex0
  IN  IF nodeType \notin {ELEMENT_NODE, TEXT_NODE, DOCUMENT_FRAGMENT_NODE}
      THEN [kept |-> FALSE]
      ELSE IF fromTextBoxes /\ layoutIndex = Undefined
      THEN [kept |-> FALSE]
      ELSE [kept |-> TRUE,
            data |-> [attributes |-> At(doc.nodes.attributes, nodeIndex),
                      nodeType |-> nodeType,
                      nodeName |-> At(doc.nodes.nodeName, nodeIndex),
                      backendNodeId |-> At(doc.nodes.backendNodeId, nodeIndex),
                      parentIndex |-> At(doc.nodes.parentIndex, nodeIndex),
                      layoutIndex |-> layoutIndex]]

\* children.push(nodeIndex) on childrenMap.get(parentIndex) ?? []
PushChild(cmap, parentIndex, nodeIndex) ==
  MapSet(cmap, parentIndex,
         Append(IF parentIndex \in DOMAIN cmap THEN cmap[parentIndex] ELSE <<>>, nodeIndex))

RECURSIVE ProcessLoop(_, _, _, _, _)
ProcessLoop(doc, maps, nodeIndex, nmap, cmap) ==
  IF nodeIndex >= Len(doc.nodes.parentIndex) THEN [nodeMap |-> nmap, childrenMap |-> cmap]
  ELSE LET parentIndex == At(doc.nodes.parentIndex, nodeIndex)
           nodeData == buildNodeData(nodeIndex, doc, maps)
       IN  IF ~nodeData.kept THEN ProcessLoop(doc, maps, nodeIndex + 1, nmap, cmap)
           ELSE IF parentIndex < 0
           THEN ProcessLoop(doc, maps, nodeIndex + 1, MapSet(nmap, nodeIndex, nodeData.data), cmap)
           ELSE ProcessLoop(doc, maps, nodeIndex + 1, MapSet(nmap, nodeIndex, nodeData.data),
                            PushChild(cmap, parentIndex, nodeIndex))

\* processSnapshot: [nodeMap, childrenMap]
processSnapshot(doc) == ProcessLoop(doc, createSnapshotPropertyMaps(doc), 0, EmptyMap, EmptyMap)

\* childrenMap.get(parent)?.[k]; Undefined when there is no such child
ChildAt(cmap, parent, k) == IF parent \in DOMAIN cmap THEN At(cmap[parent], k) ELSE Undefined

\* !index : undefined and 0 are both falsy
Falsy(index) == index = Undefined \/ index = 0

PdfMimeTypes == {Lit.application_pdf, Lit.application_x_pdf, Lit.application_x_google_chrome_pdf}

isPdf(snap, nmap, cmap) ==
  LET htmlNodeIndex == ChildAt(cmap, 0, 0)
      bodyNodeIndex == ChildAt(cmap, htmlNodeIndex, 1)
      embedNodeIndex == ChildAt(cmap, bodyNodeIndex, 0)
  IN  IF Falsy(htmlNodeIndex) THEN FALSE
      ELSE IF Falsy(bodyNodeIndex) THEN FALSE
      ELSE IF Falsy(embedNodeIndex) THEN FALSE
      ELSE IF embedNodeIndex \notin DOMAIN nmap THEN FALSE
      ELSE \E i \in 1..Len(nmap[embedNodeIndex].attributes) :
             getString(snap, nmap[embedNodeIndex].attributes[i]) \in PdfMimeTypes

RECURSIVE MergeChildrenLoop(_, _, _)
\* the shared childrenMap of findCursorPointerNodes, one document added
MergeChildrenLoop(nodes, nodeIndex, cmap) ==
  IF nodeIndex >= Len(nodes.parentIndex) THEN cmap
  ELSE IF At(nodes.parentIndex, nodeIndex) < 0 THEN MergeChildrenLoop(nodes, nodeIndex + 1, cmap)
  ELSE MergeChildrenLoop(nodes, nodeIndex + 1,
                         PushChild(cmap, At(nodes.parentIndex, nodeIndex), nodeIndex))

RECURSIVE MergeDocuments(_, _, _)
MergeDocuments(snap, d, cmap) ==
  IF d > Len(snap.documents) THEN cmap
  ELSE MergeDocuments(snap, d + 1, MergeChildrenLoop(snap.documents[d].nodes, 0, cmap))

\* (snapshot.strings[nodes.nodeName[index]] ?? 'div').toLowerCase()
LowerNodeName(snap, nodes, index) ==
  toLowerCase(StringOr(snap, At(nodes.nodeName, index), Lit.div))

RECURSIVE markChildrenInteractive(_, _, _, _, _)
RECURSIVE MarkChildrenLoop(_, _, _, _, _, _)

\* the for loop of markChildrenInteractive; st = [pointerNodes, processedBackendIds]
MarkChildrenLoop(snap, nodes, children, k, cmap, st) ==
  IF k > Len(children) THEN st
  ELSE LET childIndex == children[k]
           childBackendId == At(nodes.backendNodeId, childIndex)
       IN  IF Falsy(childBackendId) \/ childBackendId \in st.processedBackendIds
           THEN MarkChildrenLoop(snap, nodes, children, k + 1, cmap, st)
           ELSE MarkChildrenLoop(
                  snap, nodes, children, k + 1, cmap,
                  markChildrenInteractive(
                    snap, nodes, childIndex, cmap,
                    [pointerNodes |-> MapSet(st.pointerNodes, childBackendId,
                                             LowerNodeName(snap, nodes, childIndex)),
                     processedBackendIds |-> st.processedBackendIds \cup {childBackendId}]))

RECURSIVE ShallowLoop(_, _, _, _, _)
ShallowLoop(snap, nodes, children, k, st) ==
  IF k > Len(children) THEN st
  ELSE LET childBackendId == At(nodes.backendNodeId, children[k])
       IN  IF Falsy(childBackendId) \/ childBackendId \in st.processedBackendIds
           THEN ShallowLoop(snap, nodes, children, k + 1, st)
           ELSE ShallowLoop(snap, nodes, children, k + 1,
                            [pointerNodes |-> MapSet(st.pointerNodes, childBackendId,
                                                     LowerNodeName(snap, nodes, children[k])),
                             processedBackendIds |-> st.processedBackendIds \cup {childBackendId}])

\* markChildrenInteractive without the recursive call: only the direct children are marked
markChildrenInteractive_NoRecursion(snap, nodes, parentNodeIndex, cmap, st) ==
  IF parentNodeIndex \notin DOMAIN cmap THEN st
  ELSE ShallowLoop(snap, nodes, cmap[parentNodeIndex], 1, st)

markChildrenInteractive(snap, nodes, parentNodeIndex, cmap, st) ==
  IF parentNodeIndex \notin DOMAIN cmap THEN st
  ELSE MarkChildrenLoop(snap, nodes, cmap[parentNodeIndex], 1, cmap, st)

RECURSIVE PointerLayoutLoop(_, _, _, _, _)
\* layout.nodeIndex.forEach of one document
PointerLayoutLoop(snap, doc, i, cmap, st) ==
  IF i >= Len(doc.layout.nodeIndex) THEN st
  ELSE LET nodeIndex == At(doc.layout.nodeIndex, i)
           styleIndex == At(At(doc.layout.styles, i), 0)
           backendNodeId == At(doc.nodes.backendNodeId, nodeIndex)
       IN  IF StringOr(snap, styleIndex, <<>>) # Lit.pointer \/ Falsy(backendNodeId)
           THEN PointerLayoutLoop(snap, doc, i + 1, cmap, st)
           ELSE PointerLayoutLoop(
                  snap, doc, i + 1, cmap,
                  markChildrenInteractive(
                    snap, doc.nodes, nodeIndex, cmap,
                    [pointerNodes |-> MapSet(st.pointerNodes, backendNodeId,
                                             LowerNodeName(snap, doc.nodes, nodeIndex)),
                     processedBackendIds |-> st.processedBackendIds \cup {backendNodeId}]))

RECURSIVE PointerDocuments(_, _, _, _)
PointerDocuments(snap, d, cmap, st) ==
  IF d > Len(snap.documents) THEN st
  ELSE PointerDocuments(snap, d + 1, cmap, PointerLayoutLoop(snap, snap.documents[d], 0, cmap, st))

findCursorPointerNodes(snap) ==
  PointerDocuments(snap, 1, MergeDocuments(snap, 1, EmptyMap),
                   [pointerNodes |-> EmptyMap, processedBackendIds |-> {}]).pointerNodes

RECURSIVE AttributesLoop(_, _, _, _)
\* the loop of parseNodeAttributes: attributesMap.set(key, value) for every pair
AttributesLoop(snap, attributes, i, attributesMap) ==
  IF i >= Len(attributes) THEN attributesMap
  ELSE AttributesLoop(snap, attributes, i + 2,
                      MapSet(attributesMap,
                             toLowerCase(StringOr(snap, At(attributes, i), <<>>)),
                             StringOr(snap, At(attributes, i + 1), <<>>)))

\* parseNodeAttributes: lower-cased attribute name -> value
parseNodeAttributes(snap, node) == AttributesLoop(snap, node.attributes, 0, EmptyMap)

\* the body of the loop of extractMeta for a <meta> node: metaTags after the iteration
MetaTag(attrs, metaTags) ==
  LET hasProperty == Lit.property \in DOMAIN attrs
      hasName == Lit.name \in DOMAIN attrs
      property == IF hasProperty THEN toLowerCase(attrs[Lit.property]) ELSE <<>>
      name == IF hasName THEN toLowerCase(attrs[Lit.name]) ELSE <<>>
      content == IF Lit.content \in DOMAIN attrs THEN attrs[Lit.content] ELSE <<>>
      key == IF hasProperty THEN ReplaceFirst(property, Lit.og_, <<>>) ELSE name
  IN  IF /\ (hasProperty /\ StartsWith(property, Lit.og_)) \/ (hasName /\ name = Lit.description)
         /\ content # <<>>
         /\ key # <<>>
      THEN MapSet(metaTags, key, content)
      ELSE metaTags

RECURSIVE MetaLoop(_, _, _, _, _)
\* for (const childIndex of headChildren)
MetaLoop(snap, nmap, headChildren, k, metaTags) ==
  IF k > Len(headChildren) THEN metaTags
  ELSE IF \/ headChildren[k] \notin DOMAIN nmap
          \/ toUpperCase(getString(snap, nmap[headChildren[k]].nodeName)) # Lit.META
       THEN MetaLoop(snap, nmap, headChildren, k + 1, metaTags)
       ELSE MetaLoop(snap, nmap, headChildren, k + 1,
                     MetaTag(parseNodeAttributes(snap, nmap[headChildren[k]]), metaTags))

\* extractMeta: key -> content
extractMeta(snap, nmap, cmap) ==
  IF Falsy(ChildAt(cmap, 0, 0)) THEN EmptyMap
  ELSE IF Falsy(ChildAt(cmap, ChildAt(cmap, 0, 0), 0)) THEN EmptyMap
  ELSE IF ChildAt(cmap, ChildAt(cmap, 0, 0), 0) \notin DOMAIN cmap THEN EmptyMap
  ELSE MetaLoop(snap, nmap, cmap[ChildAt(cmap, ChildAt(cmap, 0, 0), 0)], 1, EmptyMap)

(***************************************************************************)
(* Snapshots handed to analyzeSnapshot.  A snapshot is built the way the  *)
(* browser builds it: nodes in document order (a parent before its        *)
(* children), positive and unique backend node ids, one layout entry per  *)
(* rendered node carrying the one requested computed style (cursor), and  *)
(* one textBoxes entry per line box of a rendered text node.               *)
(***************************************************************************)
MaxBodyKids == 2
MaxTextBoxes == 4
MaxTreeNodes == 4
MaxMetaTags == 2

DOCUMENT_NODE == 9
DOCUMENT_TYPE_NODE == 10

Strings ==
  << <<"#","d","o","c","u","m","e","n","t">>, <<"h","t","m","l">>, <<"H","T","M","L">>,
     <<"H","E","A","D">>, <<"B","O","D","Y">>, <<"E","M","B","E","D">>, <<"P">>,
     <<"#","t","e","x","t">>, <<"t","y","p","e">>, Lit.application_pdf, Lit.application_x_pdf,
     Lit.application_x_google_chrome_pdf, <<"t","e","x","t","/","h","t","m","l">>,
     Lit.pointer, Lit.auto, <<"D","I","V">>, <<"A">>, <<"S","P","A","N">>,
     Lit.META, <<"L","I","N","K">>, Lit.property, Lit.name, Lit.content, Lit.description,
     Lit.og_, Lit.og_ \o <<"t","i","t","l","e">>, Lit.og_ \o Lit.description,
     Lit.og_ \o <<"i","m","a","g","e">>, <<"t","i","t","l","e">>, <<"f","o","o">>, <<"B">>,
     <<>> >>

\* the index of a string in the pool
Str(s) == (CHOOSE i \in 1..Len(Strings) : Strings[i] = s) - 1

\* a node before it is laid out in columns
N(type, name, parent, attrs, laid) ==
  [type |-> type, name |-> Str(name), parent |-> parent, attrs |-> attrs, laid |-> laid]

Element(name, parent, attrs, laid) == N(ELEMENT_NODE, name, parent, attrs, laid)
Text(parent, laid) == N(TEXT_NODE, <<"#","t","e","x","t">>, parent, <<>>, laid)
TypeAttr(mime) == <<Str(<<"t","y","p","e">>), Str(mime)>>

\* positions (0-based) of the rendered nodes, in document order
RECURSIVE LaidIndices(_, _)
LaidIndices(ns, i) ==
  IF i >= Len(ns) THEN <<>>
  ELSE (IF At(ns, i).laid THEN <<i>> ELSE <<>>) \o LaidIndices(ns, i + 1)

\* boxes line boxes for every rendered text node
RECURSIVE TextBoxes(_, _, _, _)
TextBoxes(ns, laid, k, boxes) ==
  IF k >= Len(laid) THEN <<>>
  ELSE (IF At(ns, At(laid, k)).type = TEXT_NODE THEN [b \in 1..boxes |-> k] ELSE <<>>)
         \o TextBoxes(ns, laid, k + 1, boxes)

\* the columnar document of the nodes ns; pointers: the node indices styled cursor:pointer
Document(ns, backendBase, pointers, boxes) ==
  LET laid == LaidIndices(ns, 0)
  IN  [nodes |-> [parentIndex |-> [i \in 1..Len(ns) |-> ns[i].parent],
                  nodeType |-> [i \in 1..Len(ns) |-> ns[i].type],
                  nodeName |-> [i \in 1..Len(ns) |-> ns[i].name],
                  backendNodeId |-> [i \in 1..Len(ns) |-> backendBase + i],
                  attributes |-> [i \in 1..Len(ns) |-> ns[i].attrs]],
       layout |-> [nodeIndex |-> laid,
                   styles |-> [k \in 1..Len(laid) |->
                                 IF laid[k] \in pointers THEN <<Str(Lit.pointer)>>
                                 ELSE <<Str(Lit.auto)>>]],
       textBoxes |-> [layoutIndex |-> TextBoxes(ns, laid, 0, boxes)]]

BodyKinds == {"embedPdf", "embedXPdf", "embedChromePdf", "embedHtml", "p", "text", "space"}

\* one child of <body>
BodyKid(kind, body) ==
  CASE kind = "embedPdf" -> Element(<<"E","M","B","E","D">>, body, TypeAttr(Lit.application_pdf), TRUE)
    [] kind = "embedXPdf" -> Element(<<"E","M","B","E","D">>, body, TypeAttr(Lit.application_x_pdf), TRUE)
    [] kind = "embedChromePdf" ->
         Element(<<"E","M","B","E","D">>, body, TypeAttr(Lit.application_x_google_chrome_pdf), TRUE)
    [] kind = "embedHtml" ->
         Element(<<"E","M","B","E","D">>, body, TypeAttr(<<"t","e","x","t","/","h","t","m","l">>), TRUE)
    [] kind = "p" -> Element(<<"P">>, body, <<>>, TRUE)
    [] kind = "text" -> Text(body, TRUE)
    [] kind = "space" -> Text(body, FALSE)

\* #document, optional doctype, html, head, optional white space after head, body, kids
PageNodes(doctype, gap, kinds) ==
  LET d == IF doctype THEN 1 ELSE 0
      g == IF gap THEN 1 ELSE 0
      htmlIdx == 1 + d
      bodyIdx == htmlIdx + 2 + g
  IN  << N(DOCUMENT_NODE, <<"#","d","o","c","u","m","e","n","t">>, -1, <<>>, TRUE) >>
        \o (IF doctype THEN << N(DOCUMENT_TYPE_NODE, <<"h","t","m","l">>, 0, <<>>, FALSE) >>
            ELSE <<>>)
        \o << Element(<<"H","T","M","L">>, 0, <<>>, TRUE),
              Element(<<"H","E","A","D">>, htmlIdx, <<>>, FALSE) >>
        \o (IF gap THEN << Text(htmlIdx, FALSE) >> ELSE <<>>)
        \o << Element(<<"B","O","D","Y">>, htmlIdx, <<>>, TRUE) >>
        \o [k \in 1..Len(kinds) |-> BodyKid(kinds[k], bodyIdx)]

KindSeqs == UNION {[1..n -> BodyKinds] : n \in 0..MaxBodyKids}

\* snap is a page: html, head, body and up to MaxBodyKids children of body
IsPageSnapshot(snap) ==
  \E doctype \in BOOLEAN, gap \in BOOLEAN, kinds \in KindSeqs, boxes \in {1, MaxTextBoxes} :
    snap = [strings |-> Strings,
            documents |-> <<Document(PageNodes(doctype, gap, kinds), 0, {}, boxes)>>]

TreeNames == << <<"D","I","V">>, <<"A">>, <<"S","P","A","N">> >>

\* an element tree: node 0 is the root, parents[i] < i is the parent of node i
TreeNodes(parents) ==
  << Element(TreeNames[1], -1, <<>>, TRUE) >>
    \o [i \in 1..Len(parents) |-> Element(TreeNames[(i % 3) + 1], parents[i], <<>>, TRUE)]

ParentVectors(n) == {p \in [1..n -> 0..(n - 1)] : \A i \in 1..n : p[i] < i}

\* the documents of embedded frames: none, a chain of three nodes, a root with two children
FrameDocuments(pointers) ==
  { <<>>,
    <<Document(TreeNodes(<<0, 1>>), 20, pointers, 1)>>,
    <<Document(TreeNodes(<<0, 0>>), 20, pointers, 1)>> }

\* snap is an element tree of up to MaxTreeNodes nodes below the root, with at most one
\* pointer-styled node, followed by the documents of its frames
IsTreeSnapshot(snap) ==
  \E parents \in UNION {ParentVectors(n) : n \in 2..MaxTreeNodes},
     pointers \in {{}} \cup {{i} : i \in 0..MaxTreeNodes},
     frames \in FrameDocuments({}) \cup FrameDocuments({0}) \cup FrameDocuments({1}) :
    snap = [strings |-> Strings,
            documents |-> <<Document(TreeNodes(parents), 0, pointers, 1)>> \o frames]

\* the attribute pairs of a tag: <<name, value, name, value, ...>> as string indices
Attrs(pairs) == [i \in 1..Len(pairs) |-> Str(pairs[i])]

OgTitle == Lit.og_ \o <<"t","i","t","l","e">>

\* the tags a <head> is filled with: [name, attrs]
HeadTags ==
  { [name |-> Lit.META, attrs |-> <<Lit.property, OgTitle, Lit.content, <<"A">>>>],
    [name |-> Lit.META, attrs |-> <<Lit.property, OgTitle, Lit.content, <<"B">>>>],
    [name |-> Lit.META, attrs |-> <<Lit.name, Lit.description, Lit.content, <<"A">>>>],
    [name |-> Lit.META, attrs |-> <<Lit.name, <<"t","i","t","l","e">>, Lit.content, <<"B">>>>],
    [name |-> Lit.META, attrs |-> <<Lit.property, OgTitle, Lit.content, <<>>>>],
    [name |-> Lit.META, attrs |-> <<Lit.property, OgTitle>>],
    [name |-> Lit.META,
     attrs |-> <<Lit.name, Lit.description, Lit.property, Lit.og_ \o Lit.description,
                 Lit.content, <<"B">>>>],
    [name |-> Lit.META,
     attrs |-> <<Lit.name, Lit.description, Lit.property, <<"f","o","o">>, Lit.content, <<"B">>>>],
    [name |-> <<"L","I","N","K">>, attrs |-> <<Lit.property, OgTitle, Lit.content, <<"B">>>>] }

\* #document, optional doctype, html, head with its tags, body, optionally a meta tag in body
MetaPageNodes(doctype, tags, bodyMeta) ==
  LET d == IF doctype THEN 1 ELSE 0
      htmlIdx == 1 + d
      headIdx == htmlIdx + 1
  IN  << N(DOCUMENT_NODE, <<"#","d","o","c","u","m","e","n","t">>, -1, <<>>, TRUE) >>
        \o (IF doctype THEN << N(DOCUMENT_TYPE_NODE, <<"h","t","m","l">>, 0, <<>>, FALSE) >>
            ELSE <<>>)
        \o << Element(<<"H","T","M","L">>, 0, <<>>, TRUE),
              Element(<<"H","E","A","D">>, htmlIdx, <<>>, FALSE) >>
        \o [k \in 1..Len(tags) |-> Element(tags[k].name, headIdx, Attrs(tags[k].attrs), FALSE)]
        \o << Element(<<"B","O","D","Y">>, htmlIdx, <<>>, TRUE) >>
        \o (IF bodyMeta
            THEN << Element(Lit.META, headIdx + Len(tags) + 1,
                            Attrs(<<Lit.property, Lit.og_ \o <<"i","m","a","g","e">>,
                                    Lit.content, <<"A">>>>), FALSE) >>
            ELSE <<>>)

\* snap is a page whose head holds up to MaxMetaTags tags
IsMetaSnapshot(snap) ==
  \E doctype \in BOOLEAN, bodyMeta \in BOOLEAN, n \in 0..MaxMetaTags :
    \E tags \in [1..n -> HeadTags] :
      snap = [strings |-> Strings,
              documents |-> <<Document(MetaPageNodes(doctype, tags, bodyMeta), 0, {}, 1)>>]

NoDocuments == [strings |-> Strings, documents |-> <<>>]

\* the members of a document that a capture may have left out
DocumentShapes == {{}, {"layout", "textBoxes"}, {"nodes", "textBoxes"}}

\* a snapshot whose first document lacks the node table or the layout table
IsMalformedSnapshot(snap) ==
  \E shape \in DocumentShapes, kinds \in KindSeqs :
    LET whole == Document(PageNodes(FALSE, FALSE, kinds), 0, {}, 1)
    IN  snap = [strings |-> Strings, documents |-> <<[f \in shape |-> whole[f]]>>]

\* snapshot.nodes.textValue.index / snapshot.layout.nodeIndex: reading a member of
\* undefined raises a TypeError
ReadsMemberOfUndefined(doc) == "nodes" \notin DOMAIN doc \/ "layout" \notin DOMAIN doc

(***************************************************************************)
(* analyzeSnapshot as a state machine: one action per phase.              *)
(***************************************************************************)
SynthIdle == spc = "idle" /\ sin = <<>> /\ html = <<>>

NoLookup == [fn |-> "none"]

PassIdle ==
  /\ ppc = "idle"
  /\ pin = <<>>
  /\ lookup = NoLookup
  /\ listenerMap = <<>>
  /\ boundingBoxes = <<>>
  /\ failed = {}
  /\ frame = [pc |-> "idle"]

DecodeInit ==
  /\ dpc = "start"
  /\ \/ IsPageSnapshot(snapshot)
     \/ IsTreeSnapshot(snapshot)
     \/ IsMetaSnapshot(snapshot)
     \/ IsMalformedSnapshot(snapshot)
     \/ snapshot = NoDocuments
  /\ nodeMap = EmptyMap
  /\ childrenMap = EmptyMap
  /\ detectedPdf = FALSE
  /\ meta = EmptyMap
  /\ pointerNodes = EmptyMap
  /\ SynthIdle
  /\ PassIdle
  /\ RestIdle

\* if (!mainDocument) return { meta: {}, isPdf: ..., cursorPointerNodes: new Map() }
AnalyzeNoDocument ==
  /\ dpc = "start"
  /\ Len(snapshot.documents) = 0
  /\ dpc' = "done"
  /\ detectedPdf' = FALSE
  /\ meta' = EmptyMap
  /\ pointerNodes' = EmptyMap
  /\ UNCHANGED <<snapshot, nodeMap, childrenMap, svars, pvars, fvars, xvars>>

\* processSnapshot(mainDocument) raises: nothing in analyzeSnapshot catches it
ProcessSnapshotThrows ==
  /\ dpc = "start"
  /\ Len(snapshot.documents) > 0
  /\ ReadsMemberOfUndefined(snapshot.documents[1])
  /\ dpc' = "threw"
  /\ UNCHANGED <<snapshot, nodeMap, childrenMap, detectedPdf, meta, pointerNodes, svars, pvars, fvars, xvars>>

ProcessSnapshot ==
  /\ dpc = "start"
  /\ Len(snapshot.documents) > 0
  /\ ~ReadsMemberOfUndefined(snapshot.documents[1])
  /\ LET r == processSnapshot(snapshot.documents[1])
     IN  nodeMap' = r.nodeMap /\ childrenMap' = r.childrenMap
  /\ dpc' = "processed"
  /\ UNCHANGED <<snapshot, detectedPdf, meta, pointerNodes, svars, pvars, fvars, xvars>>

DetectPdf ==
  /\ dpc = "processed"
  /\ detectedPdf' = isPdf(snapshot, nodeMap, childrenMap)
  /\ dpc' = "pdf"
  /\ UNCHANGED <<snapshot, nodeMap, childrenMap, meta, pointerNodes, svars, pvars, fvars, xvars>>

ExtractMeta ==
  /\ dpc = "pdf"
  /\ meta' = extractMeta(snapshot, nodeMap, childrenMap)
  /\ dpc' = "meta"
  /\ UNCHANGED <<snapshot, nodeMap, childrenMap, detectedPdf, pointerNodes, svars, pvars, fvars, xvars>>

FindCursorPointerNodes ==
  /\ dpc = "meta"
  /\ pointerNodes' = findCursorPointerNodes(snapshot)
  /\ dpc' = "done"
  /\ UNCHANGED <<snapshot, nodeMap, childrenMap, detectedPdf, meta, svars, pvars, fvars, xvars>>

DecodeNext ==
  AnalyzeNoDocument \/ ProcessSnapshotThrows \/ ProcessSnapshot \/ DetectPdf \/ ExtractMeta \/ FindCursorPointerNodes

SpecDecode == DecodeInit /\ [][DecodeNext]_vars

(***************************************************************************)
(* Properties of the decoder.                                             *)
(***************************************************************************)
MainDocument == snapshot.documents[1]

\* the indices of the DOM children of node p, in document order
DomChildren(doc, p) ==
  SelectSeq([i \in 1..Len(doc.nodes.parentIndex) |-> i - 1],
            LAMBDA i : At(doc.nodes.parentIndex, i) = p)

HasLayoutEntry(doc, i) == \E k \in 1..Len(doc.layout.nodeIndex) : doc.layout.nodeIndex[k] = i

\* a doctype, or white space that is not rendered, is no part of the page's shape
Insignificant(doc, i) ==
  \/ At(doc.nodes.nodeType, i) = DOCUMENT_TYPE_NODE
  \/ At(doc.nodes.nodeType, i) = TEXT_NODE /\ ~HasLayoutEntry(doc, i)

ShapeChildren(doc, p) == SelectSeq(DomChildren(doc, p), LAMBDA i : ~Insignificant(doc, i))

IsElement(snap, doc, i, name) ==
  /\ At(doc.nodes.nodeType, i) = ELEMENT_NODE
  /\ toUpperCase(getString(snap, At(doc.nodes.nodeName, i))) = name

\* the values (not the names) of the attributes of node i
AttributeValues(snap, doc, i) ==
  {getString(snap, At(doc.nodes.attributes, i)[k]) :
     k \in {k \in 1..Len(At(doc.nodes.attributes, i)) : k % 2 = 0}}

\* <html><head></head><body><embed type=pdf></body></html> and nothing else
ExactPdfShape(snap, doc) ==
  LET top == ShapeChildren(doc, 0)
      htmlKids == ShapeChildren(doc, top[1])
      bodyKids == ShapeChildren(doc, htmlKids[2])
  IN  /\ Len(top) = 1
      /\ IsElement(snap, doc, top[1], <<"H","T","M","L">>)
      /\ Len(htmlKids) = 2
      /\ IsElement(snap, doc, htmlKids[1], <<"H","E","A","D">>)
      /\ ShapeChildren(doc, htmlKids[1]) = <<>>
      /\ IsElement(snap, doc, htmlKids[2], <<"B","O","D","Y">>)
      /\ Len(bodyKids) = 1
      /\ IsElement(snap, doc, bodyKids[1], <<"E","M","B","E","D">>)
      /\ ShapeChildren(doc, bodyKids[1]) = <<>>
      /\ AttributeValues(snap, doc, bodyKids[1]) \cap PdfMimeTypes # {}

\* C1: isPdf is true if and only if the main document is exactly
\* <html><body><embed></body></html> with a PDF MIME type among the embed's attribute
\* values; an extra sibling of the embed makes it false.
C1_IsPdfIffExactShape ==
  (dpc \in {"pdf", "meta", "done"} /\ Len(snapshot.documents) > 0)
    => (detectedPdf <=> ExactPdfShape(snapshot, MainDocument))

RECURSIVE IsDomDescendant(_, _, _)
\* node j lies below node a, following the parentIndex column of its own document
IsDomDescendant(doc, j, a) ==
  LET p == At(doc.nodes.parentIndex, j)
  IN  p >= 0 /\ (p = a \/ IsDomDescendant(doc, p, a))

FirstStyle(snap, doc, k) == StringOr(snap, At(At(doc.layout.styles, k), 0), <<>>)

\* the node indices of doc whose first computed style is pointer
PointerStyled(snap, doc) ==
  {At(doc.layout.nodeIndex, k) : k \in {k \in 0..(Len(doc.layout.nodeIndex) - 1) :
                                          FirstStyle(snap, doc, k) = Lit.pointer}}

\* C2: when node A has pointer as its first computed style, A and every DOM descendant
\* of A, at any depth, is a key of cursorPointerNodes, mapped to its lower-case tag name.
C2_PointerPropagationTransitive ==
  dpc = "done" =>
    \A d \in 1..Len(snapshot.documents) :
      LET doc == snapshot.documents[d]
      IN  \A a \in PointerStyled(snapshot, doc) :
            \A j \in 0..(Len(doc.nodes.parentIndex) - 1) :
              (j = a \/ IsDomDescendant(doc, j, a)) =>
                /\ At(doc.nodes.backendNodeId, j) \in DOMAIN pointerNodes
                /\ pointerNodes[At(doc.nodes.backendNodeId, j)]
                     = toLowerCase(getString(snapshot, At(doc.nodes.nodeName, j)))

\* a pointer-styled node with a grandchild that is not pointer-styled itself is decoded
C2_Witness ==
  /\ dpc = "done"
  /\ Len(snapshot.documents) > 0
  /\ \E a \in PointerStyled(snapshot, MainDocument) :
       \E b, g \in 0..(Len(MainDocument.nodes.parentIndex) - 1) :
         /\ At(MainDocument.nodes.parentIndex, b) = a
         /\ At(MainDocument.nodes.parentIndex, g) = b
         /\ g \notin PointerStyled(snapshot, MainDocument)
         /\ At(MainDocument.nodes.backendNodeId, g) \in DOMAIN pointerNodes

\* C10: every decoded record's layoutIndex is a valid index of the layout table or, for a
\* node that is not a text node, -1; a text node without a layout entry is not decoded.
C10_LayoutIndexValidTextNeedsLayout ==
  (dpc # "start" /\ Len(snapshot.documents) > 0) =>
    \A i \in DOMAIN nodeMap :
      /\ \/ nodeMap[i].layoutIndex \in 0..(Len(MainDocument.layout.nodeIndex) - 1)
         \/ nodeMap[i].nodeType # TEXT_NODE /\ nodeMap[i].layoutIndex = -1
      /\ ~(nodeMap[i].nodeType = TEXT_NODE /\ ~HasLayoutEntry(MainDocument, i))

\* the value of the attribute called name of node i: [has, value]
AttributeOf(snap, doc, i, name) ==
  LET attributes == At(doc.nodes.attributes, i)
      hits == {k \in 1..Len(attributes) :
                 k % 2 = 1 /\ k < Len(attributes) /\ getString(snap, attributes[k]) = name}
  IN  IF hits = {} THEN [has |-> FALSE, value |-> <<>>]
      ELSE [has |-> TRUE,
            value |-> getString(snap, attributes[(CHOOSE k \in hits : \A j \in hits : j <= k) + 1])]

\* the <meta> children of the <head> of the document, in document order
HeadMetaTags(snap, doc) ==
  SelectSeq([i \in 1..Len(doc.nodes.parentIndex) |-> i - 1],
            LAMBDA i :
              /\ IsElement(snap, doc, i, Lit.META)
              /\ At(doc.nodes.parentIndex, i) >= 0
              /\ IsElement(snap, doc, At(doc.nodes.parentIndex, i), <<"H","E","A","D">>)
              /\ At(doc.nodes.parentIndex, At(doc.nodes.parentIndex, i)) >= 0
              /\ IsElement(snap, doc, At(doc.nodes.parentIndex, At(doc.nodes.parentIndex, i)),
                           <<"H","T","M","L">>))

HasOgProperty(snap, doc, i) ==
  /\ AttributeOf(snap, doc, i, Lit.property).has
  /\ StartsWith(AttributeOf(snap, doc, i, Lit.property).value, Lit.og_)

\* non-empty content, and an og: property or the name description
QualifiesAsMeta(snap, doc, i) ==
  /\ AttributeOf(snap, doc, i, Lit.content).value # <<>>
  /\ \/ HasOgProperty(snap, doc, i)
     \/ AttributeOf(snap, doc, i, Lit.name).value = Lit.description

\* the og: suffix when the og property qualified the tag, otherwise the name
MetaKeyOf(snap, doc, i) ==
  IF HasOgProperty(snap, doc, i)
  THEN SubSeq(AttributeOf(snap, doc, i, Lit.property).value, Len(Lit.og_) + 1,
              Len(AttributeOf(snap, doc, i, Lit.property).value))
  ELSE AttributeOf(snap, doc, i, Lit.name).value

\* one entry per key of a qualifying tag, the last tag in document order giving the value
ExpectedMeta(snap, doc) ==
  LET tags == SelectSeq(HeadMetaTags(snap, doc), LAMBDA i : QualifiesAsMeta(snap, doc, i))
      last(key) == CHOOSE k \in 1..Len(tags) :
                     /\ MetaKeyOf(snap, doc, tags[k]) = key
                     /\ \A j \in (k + 1)..Len(tags) : MetaKeyOf(snap, doc, tags[j]) # key
  IN  [key \in {MetaKeyOf(snap, doc, tags[k]) : k \in 1..Len(tags)} |->
         AttributeOf(snap, doc, tags[last(key)], Lit.content).value]

\* C11: meta has an entry exactly for each <meta> child of <head> with non-empty content
\* and an og: property or the name description; the key is the og: suffix when the og
\* property qualified the tag and the name otherwise; of two tags with one key the later
\* one in document order gives the value.
C11_MetaIsQualifyingHeadTags ==
  (dpc \in {"meta", "done"} /\ Len(snapshot.documents) > 0)
    => meta = ExpectedMeta(snapshot, MainDocument)

\* two og:title tags have been decoded and the later content is the value under title
C11_Witness ==
  /\ dpc = "done"
  /\ Len(snapshot.documents) > 0
  /\ Len(HeadMetaTags(snapshot, MainDocument)) = 2
  /\ \A k \in 1..2 :
       /\ HasOgProperty(snapshot, MainDocument, HeadMetaTags(snapshot, MainDocument)[k])
       /\ MetaKeyOf(snapshot, MainDocument, HeadMetaTags(snapshot, MainDocument)[k])
            = <<"t","i","t","l","e">>
  /\ AttributeOf(snapshot, MainDocument, HeadMetaTags(snapshot, MainDocument)[1], Lit.content).value
       = <<"A">>
  /\ meta = (<<"t","i","t","l","e">> :> <<"B">>)

(***************************************************************************)
(* Shape mismatches.                                                      *)
(***************************************************************************)
\* the first document is there but is not a document: it has no node table or no layout table
IsMalformedDocument(snap) ==
  /\ Len(snap.documents) > 0
  /\ {"nodes", "layout"} \ DOMAIN snap.documents[1] # {}

\* C12: decoding a snapshot whose documents[0] is missing or malformed never throws: it
\* ends with the empty result (meta = {}, isPdf = false, no cursor-pointer nodes); and
\* synthesizing a node array without a parent-less root ends with the empty string.
C12_ShapeMismatchYieldsEmptyResult ==
  /\ (dpc \in {"done", "threw"} /\ (Len(snapshot.documents) = 0 \/ IsMalformedDocument(snapshot)))
       => /\ dpc = "done"
          /\ meta = EmptyMap
          /\ detectedPdf = FALSE
          /\ pointerNodes = EmptyMap
  /\ (spc = "done" /\ \A i \in 1..Len(sin.axNodes) : sin.axNodes[i].parentId # "")
       => html = <<>>

(***************************************************************************)
(* Inputs of axTreeToHtml.  Accessibility trees are built as the browser  *)
(* reports them: node 1 is the parent-less root, parentId and childIds    *)
(* agree, and node i is bound to the DOM node with backend id i.          *)
(***************************************************************************)
MaxAxNodes == 4
MaxVpNodes == 4

NodeIds == <<"1", "2", "3", "4", "5", "6">>

Prop(name, value) == [name |-> name, value |-> value]

\* a node template: everything but the links of the node
Tpl(role, name, props) ==
  [role |-> StrVal(role), name |-> IF name = <<>> THEN NoVal ELSE StrVal(name),
   value |-> NoVal, properties |-> props, ignored |-> FALSE]

Focusable == Prop(Lit.focusable, BoolVal(TRUE))

Palette ==
  { Tpl(Lit.StaticText, <<"H","i">>, <<>>),
    Tpl(Lit.none, <<>>, <<>>),
    Tpl(Lit.generic, <<>>, <<>>),
    Tpl(Lit.link, <<>>, <<Focusable>>),
    Tpl(Lit.heading, <<"H","i">>, <<Prop(Lit.level, IntVal(3))>>),
    Tpl(Lit.group, <<>>, <<Prop(Lit.hidden, BoolVal(TRUE))>>),
    Tpl(Lit.group, <<>>, <<>>) }

RootTpl == Tpl(Lit.RootWebArea, <<>>, <<>>)

\* the accessibility nodes of a tree: parents[i] is the parent of node i (0 for the root)
AxTree(parents, tpls) ==
  [i \in 1..Len(parents) |->
     [nodeId |-> NodeIds[i],
      parentId |-> IF parents[i] = 0 THEN "" ELSE NodeIds[parents[i]],
      childIds |-> SelectSeq([j \in 1..Len(parents) |-> NodeIds[j]],
                             LAMBDA id : \E j \in 1..Len(parents) :
                                           NodeIds[j] = id /\ parents[j] = i),
      backendDOMNodeId |-> i,
      ignored |-> tpls[i].ignored,
      role |-> tpls[i].role,
      name |-> tpls[i].name,
      value |-> tpls[i].value,
      properties |-> tpls[i].properties]]

\* parent vectors of the trees of n nodes rooted at node 1
AxShapes(n) == {p \in [1..n -> 0..(n - 1)] : p[1] = 0 /\ \A i \in 2..n : p[i] >= 1 /\ p[i] < i}

NoFilter ==
  [present |-> FALSE, viewportInfo |-> [x |-> 0, y |-> 0, width |-> 0, height |-> 0],
   nodeBoundingBoxes |-> <<>>]

NoChannel == [describeNode |-> EmptyMap, frameTree |-> EmptyMap, targetTree |-> EmptyMap,
              targets |-> {}]

Input(axNodes, cpn, elm, vf) ==
  [axNodes |-> axNodes, cursorPointerNodes |-> cpn, eventListenerMap |-> elm,
   frameContextId |-> <<>>, viewportFilter |-> vf, channel |-> NoChannel]

\* interactivity found by the decoder and the listener lookup: [cursorPointerNodes, eventListenerMap]
Interactivity ==
  { [cpn |-> EmptyMap, elm |-> EmptyMap],
    [cpn |-> (2 :> <<"s","p","a","n">>),
     elm |-> (3 :> <<Lit.keydown, Lit.click>>) @@ (4 :> <<Lit.keydown>>)] }

\* one template per node, the root's first
TplVectors(n) == {t \in [1..n -> Palette \cup {RootTpl}] : t[1] = RootTpl /\ \A i \in 2..n : t[i] \in Palette}

\* sin is a tree of n nodes with any shape, any templates and any interactivity
IsTreeInput(s) ==
  \E n \in 2..MaxAxNodes :
    \E parents \in AxShapes(n), tpls \in TplVectors(n), ia \in Interactivity :
      s = Input(AxTree(parents, tpls), ia.cpn, ia.elm, NoFilter)

Urls ==
  { Lit.javascript_ \o <<"v","o","i","d","(","0",")">>,
    <<"J","a","v","a","S","c","r","i","p","t",":","x">>,
    Lit.data_ \o <<"x">>, Lit.blob_ \o <<"x">>, Lit.file_ \o <<"x">>,
    <<"h","t","t","p",":","x">>, <<"/","a","\"","b">>, <<>> }

\* sin is a single node carrying a url property
IsUrlInput(s) ==
  \E role \in {Lit.link, Lit.image, Lit.paragraph}, name \in {<<>>, <<"G","o">>}, url \in Urls :
    s = Input(AxTree(<<0>>, <<Tpl(role, name, <<Prop(Lit.url, StrVal(url))>>)>>),
              EmptyMap, EmptyMap, NoFilter)

DecodeIdle ==
  /\ dpc = "idle" /\ snapshot = <<>> /\ nodeMap = EmptyMap /\ childrenMap = EmptyMap
  /\ detectedPdf = FALSE /\ meta = EmptyMap /\ pointerNodes = EmptyMap

SynthInit ==
  /\ DecodeIdle
  /\ PassIdle
  /\ RestIdle
  /\ spc = "ready"
  /\ (IsTreeInput(sin) \/ IsUrlInput(sin))
  /\ html = <<>>

\* one call of axTreeToHtml on the frozen arguments
Synthesize ==
  /\ spc = "ready"
  /\ html' = axTreeToHtml(sin.axNodes, sin.cursorPointerNodes, sin.eventListenerMap,
                          sin.frameContextId, sin.viewportFilter, sin.channel)
  /\ spc' = "done"
  /\ UNCHANGED <<sin, dvars, pvars, fvars, xvars>>

SynthNext == Synthesize

SpecSynth == SynthInit /\ [][SynthNext]_vars

(***************************************************************************)
(* Properties of the synthesizer.                                         *)
(***************************************************************************)
SinClosure ==
  Closure(sin.axNodes, sin.cursorPointerNodes, sin.eventListenerMap, sin.frameContextId,
          sin.viewportFilter, sin.channel)

RECURSIVE AncestorIds(_, _)
\* the node ids above id, following parentId
AncestorIds(axNodes, id) ==
  IF GetNode(axNodes, id).parentId = "" THEN {}
  ELSE {GetNode(axNodes, id).parentId} \cup AncestorIds(axNodes, GetNode(axNodes, id).parentId)

DescendantIds(axNodes, id) ==
  {axNodes[i].nodeId : i \in {i \in 1..Len(axNodes) : id \in AncestorIds(axNodes, axNodes[i].nodeId)}}

\* the visited map when the walk enters a node of a tree, as far as the node can see it
VisitedAbove(axNodes, node) ==
  [id \in AncestorIds(axNodes, node.nodeId) |-> GetNode(axNodes, id)]

\* what buildHtmlRecursive returns for a node when the walk reaches it
NodeHtml(c, node) == buildHtmlRecursive(c, node, VisitedAbove(c.axNodes, node)).html

\* what buildChildrenHtml returns for a node when the walk is inside it
ChildrenHtml(c, node) ==
  buildChildrenHtml(c, node, VisitedAbove(c.axNodes, node) @@ (node.nodeId :> node)).html

RoleOf(node) == getAxNodeValue(node.role)
NameOf(node) == getAxNodeValue(node.name)
IsHidden(node) == getAxNodeProperty(node, Lit.hidden) = Lit.true
IsFocusable(node) == getAxNodeProperty(node, Lit.focusable) = Lit.true
ParentOf(axNodes, node) == IF node.parentId = "" THEN node ELSE GetNode(axNodes, node.parentId)
ComputedAttributes(axNodes, node) ==
  addAriaProperties(node, node.parentId # "", ParentOf(axNodes, node))

\* step 5 (structural elision) or step 7 (generic collapse) replaces the node by its children
IsElided(c, node) ==
  \/ ~isInteractiveElement(c, node)
       /\ (RoleOf(node) \in {Lit.LayoutTable, Lit.LayoutTableRow, Lit.LayoutTableCell,
                             Lit.LineBreak, Lit.InlineTextBox, Lit.presentation, Lit.none}
           \/ node.ignored)
  \/ /\ RoleOf(node) \in {Lit.generic, Lit.group}
     /\ ComputedAttributes(c.axNodes, node) = <<>>
     /\ NameOf(node) = <<>>
     /\ ~isInteractiveElement(c, node)

IsTextLeaf(node) == RoleOf(node) \in {Lit.StaticText, Lit.ListMarker}

\* the node hands the html of its children on to its own output
PassesChildrenOn(c, node) ==
  /\ ~IsHidden(node)
  /\ ~IsTextLeaf(node)
  /\ \/ IsElided(c, node)
     \/ LET tag == ChooseTag(c, node, RoleOf(node), node.parentId # "", ParentOf(c.axNodes, node))
        IN  tag \notin SELF_CLOSING_TAGS /\ tag # Lit.iframe

NodeMarker(node) == <<" ">> \o Attr(Lit.node, IntToStr(node.backendDOMNodeId))

\* C3: a focusable or independently interactive node with a DOM binding that the visited,
\* viewport, hidden and elision steps leave in place is emitted as a tag carrying
\* node="<id>"; the emission gate never drops it.
C3_InteractiveNodeAlwaysMarked ==
  (spc = "done" /\ ~sin.viewportFilter.present) =>
    \A i \in 1..Len(sin.axNodes) :
      LET node == sin.axNodes[i]
      IN  ( /\ IsFocusable(node) \/ isInteractiveElement(SinClosure, node)
            /\ node.backendDOMNodeId # 0
            /\ ~IsHidden(node)
            /\ ~IsElided(SinClosure, node)
            /\ ~IsTextLeaf(node)
            /\ \A a \in AncestorIds(sin.axNodes, node.nodeId) :
                 PassesChildrenOn(SinClosure, GetNode(sin.axNodes, a)) )
          => Includes(html, NodeMarker(node))

HasProperty(node, name) == \E k \in 1..Len(node.properties) : node.properties[k].name = name

HrefOrSrcValue(attr) ==
  IF StartsWith(attr, Lit.href \o <<"=", "\"">>) THEN SubSeq(attr, 7, Len(attr))
  ELSE IF StartsWith(attr, Lit.src \o <<"=", "\"">>) THEN SubSeq(attr, 6, Len(attr))
  ELSE <<>>

IsHrefOrSrc(attr) ==
  StartsWith(attr, Lit.href \o <<"=", "\"">>) \/ StartsWith(attr, Lit.src \o <<"=", "\"">>)

ForbiddenSchemes == {Lit.javascript_, Lit.data_, Lit.blob_, Lit.file_}

LinkGoScenario ==
  Input(AxTree(<<0>>, <<Tpl(Lit.link, <<"G","o">>,
                            <<Prop(Lit.url, StrVal(Lit.javascript_ \o <<"v","o","i","d","(","0",")">>))>>)>>),
        EmptyMap, EmptyMap, NoFilter)

\* <a href="#">Go</a>
LinkGoHtml ==
  <<"<","a"," ","h","r","e","f","=","\"","#","\"",">","G","o","<","/","a",">">>

\* C5: a url starting with javascript: is written as "#", one starting with data:, blob: or
\* file: gives no attribute, the attribute is src for an image and href otherwise; the link
\* "Go" with url javascript:void(0) renders as <a href="#">Go</a>; no href or src written
\* for a url begins with javascript:, data:, blob: or file:.
C5_UrlProjection ==
  /\ \A i \in {i \in 1..Len(sin.axNodes) : spc = "done"} :
       LET node == sin.axNodes[i]
           url == getAxNodeProperty(node, Lit.url)
           attrs == ComputedAttributes(sin.axNodes, node)
           written == {k \in 1..Len(attrs) : IsHrefOrSrc(attrs[k])}
       IN  HasProperty(node, Lit.url) =>
             /\ StartsWith(url, Lit.javascript_) =>
                  \E k \in written : HrefOrSrcValue(attrs[k]) = <<"#", "\"">>
             /\ (\E s \in {Lit.data_, Lit.blob_, Lit.file_} : StartsWith(url, s)) => written = {}
             /\ \A k \in written :
                  /\ StartsWith(attrs[k], Lit.src) <=> RoleOf(node) = Lit.image
                  /\ \A s \in ForbiddenSchemes : ~StartsWith(HrefOrSrcValue(attrs[k]), s)
             /\ (Len(sin.axNodes) = 1 /\ written # {}) =>
                  \E k \in written : Includes(html, attrs[k])
  /\ (spc = "done" /\ sin = LinkGoScenario) => html = LinkGoHtml

C5_Witness == spc = "done" /\ sin = LinkGoScenario /\ html = LinkGoHtml

HeadingScenario ==
  Input(AxTree(<<0, 1>>, <<RootTpl, Tpl(Lit.heading, <<"H","i">>, <<Prop(Lit.level, IntVal(3))>>)>>),
        EmptyMap, EmptyMap, NoFilter)

\* C6 as claimed: RootWebArea with the only child heading(level = 3, name "Hi"), no
\* cursor-pointer entries, no listeners, no viewport filter, synthesizes to <h3>Hi</h3>.
C6_HeadingScenarioIsBareH3 ==
  (spc = "done" /\ sin = HeadingScenario)
    => html = <<"<","h","3",">","H","i","<","/","h","3",">">>

\* C6 as amended: the same tree synthesizes to <body><h3>Hi</h3></body>: the RootWebArea
\* root is emitted as the body tag around its child.
C6_HeadingScenarioInsideBody ==
  (spc = "done" /\ sin = HeadingScenario)
    => html = <<"<","b","o","d","y",">","<","h","3",">","H","i","<","/","h","3",">",
                "<","/","b","o","d","y",">">>

C6_Witness == spc = "done" /\ sin = HeadingScenario /\ html # <<>>

IsInline(fragment) == fragment # <<>> /\ Head(fragment) # "<"

RECURSIVE JoinedWithBreaks(_, _)
\* the non-empty fragments in order, <br> between two neighbours that are both inline
JoinedWithBreaks(fragments, k) ==
  IF k > Len(fragments) THEN <<>>
  ELSE (IF k > 1 /\ IsInline(fragments[k - 1]) /\ IsInline(fragments[k])
        THEN <<"<","b","r",">">> ELSE <<>>)
         \o fragments[k] \o JoinedWithBreaks(fragments, k + 1)

\* the html of each child of a node, in childIds order
ChildFragments(c, node) ==
  [k \in 1..Len(node.childIds) |-> NodeHtml(c, GetNode(c.axNodes, node.childIds[k]))]

ExpectedChildrenHtml(c, node) ==
  JoinedWithBreaks(SelectSeq(ChildFragments(c, node), LAMBDA f : f # <<>>), 1)

C9_BreakOnlyBetweenInlineFragments ==
  (spc = "done" /\ ~sin.viewportFilter.present) =>
    \A i \in 1..Len(sin.axNodes) :
      ChildrenHtml(SinClosure, sin.axNodes[i]) = ExpectedChildrenHtml(SinClosure, sin.axNodes[i])

\* text, an empty role-none child, text: joined as Hi<br>Hi
C9_Witness ==
  /\ spc = "done"
  /\ Len(sin.axNodes) = 4
  /\ sin.axNodes[1].childIds = <<"2", "3", "4">>
  /\ ChildFragments(SinClosure, sin.axNodes[1]) = << <<"H","i">>, <<>>, <<"H","i">> >>
  /\ RoleOf(sin.axNodes[3]) = Lit.none
  /\ html = <<"<","b","o","d","y",">","H","i","<","b","r",">","H","i","<","/","b","o","d","y",">">>

(***************************************************************************)
(* Synthesis with a viewport filter.  Every node carries a one-letter     *)
(* name of its own, so a node is in the output exactly when its letter is. *)
(***************************************************************************)
Letters == <<"A", "B", "C", "D", "E", "F">>

ViewportInfo == [x |-> 0, y |-> 0, width |-> 800, height |-> 500]

\* a box in view, a box off the viewport (below it or above it), at horizontal offset x
BoxOf(kind, below, x) ==
  [x |-> x, width |-> 50, height |-> 10,
   y |-> IF kind = "in" THEN 100 ELSE IF below THEN 1000 ELSE -10]

BoxKinds == {"none", "in", "out"}

ViewportTree(parents, combo) ==
  AxTree(parents,
         [i \in 1..Len(parents) |->
            Tpl(IF i = 1 THEN Lit.RootWebArea ELSE IF i = combo THEN Lit.combobox ELSE Lit.paragraph,
                <<Letters[i]>>, <<>>)])

ViewportFilter(kinds, below, x) ==
  [present |-> TRUE,
   viewportInfo |-> ViewportInfo,
   nodeBoundingBoxes |->
     [k \in 1..Cardinality({i \in DOMAIN kinds : kinds[i] # "none"}) |->
        LET i == CHOOSE i \in DOMAIN kinds :
                   /\ kinds[i] # "none"
                   /\ Cardinality({j \in 1..i : kinds[j] # "none"}) = k
        IN  [nodeId |-> NodeIds[i], box |-> BoxOf(kinds[i], below, x)]]]

IsViewportInput(s) ==
  \E n \in 2..MaxVpNodes :
    \E parents \in AxShapes(n), combo \in {0} \cup 2..n, kinds \in [1..n -> BoxKinds],
       place \in {<<TRUE, 0>>, <<FALSE, 0>>, <<TRUE, 5000>>} :
      s = Input(ViewportTree(parents, combo), EmptyMap, EmptyMap,
                ViewportFilter(kinds, place[1], place[2]))

ViewportInit ==
  /\ DecodeIdle
  /\ PassIdle
  /\ RestIdle
  /\ spc = "ready"
  /\ IsViewportInput(sin)
  /\ html = <<>>

SpecViewport == ViewportInit /\ [][SynthNext]_vars

HasBox(vf, id) == \E k \in 1..Len(vf.nodeBoundingBoxes) : vf.nodeBoundingBoxes[k].nodeId = id
BoxFor(vf, id) ==
  vf.nodeBoundingBoxes[CHOOSE k \in 1..Len(vf.nodeBoundingBoxes) :
                         vf.nodeBoundingBoxes[k].nodeId = id].box

\* the box and the viewport share a vertical range
IntersectsVertically(box, viewport) == box.y < viewport.height /\ box.y + box.height > 0

OwnBoxInView(vf, id) == HasBox(vf, id) /\ IntersectsVertically(BoxFor(vf, id), vf.viewportInfo)

AboveBoxInView(axNodes, vf, id) ==
  \E d \in DescendantIds(axNodes, id) : OwnBoxInView(vf, d)

RECURSIVE InVisibleCombobox(_, _, _)
\* some ancestor is a combobox that is itself visible
InVisibleCombobox(axNodes, vf, id) ==
  \E a \in AncestorIds(axNodes, id) :
    /\ RoleOf(GetNode(axNodes, a)) = Lit.combobox
    /\ \/ OwnBoxInView(vf, a)
       \/ AboveBoxInView(axNodes, vf, a)
       \/ InVisibleCombobox(axNodes, vf, a)

LetterOf(axNodes, id) == NameOf(GetNode(axNodes, id))

MovedHorizontally(vf) ==
  [vf EXCEPT !.nodeBoundingBoxes =
     [k \in DOMAIN @ |-> [@[k] EXCEPT !.box.x = 5000 - @]]]

\* C4: with a viewport filter, a node whose own box misses the viewport vertically is absent
\* from the output with its whole subtree, unless it is an ancestor of a node whose box
\* meets the viewport or a descendant of a visible combobox; moving every box
\* horizontally leaves the output as it is.
C4_OffViewportSubtreeExcluded ==
  (spc = "done" /\ sin.viewportFilter.present) =>
    /\ \A i \in 1..Len(sin.axNodes) :
         LET id == sin.axNodes[i].nodeId
             vf == sin.viewportFilter
         IN  ( /\ HasBox(vf, id)
               /\ ~IntersectsVertically(BoxFor(vf, id), vf.viewportInfo)
               /\ ~AboveBoxInView(sin.axNodes, vf, id)
               /\ ~InVisibleCombobox(sin.axNodes, vf, id) )
             => \A m \in {id} \cup DescendantIds(sin.axNodes, id) :
                  ~Includes(html, LetterOf(sin.axNodes, m))
    /\ html = axTreeToHtml(sin.axNodes, sin.cursorPointerNodes, sin.eventListenerMap,
                           sin.frameContextId, MovedHorizontally(sin.viewportFilter),
                           sin.channel)

\* the box {y: 1000, height: 10} below a viewport of height 500: the node and its box-less
\* child are left out while a sibling in view is written
C4_Witness ==
  /\ spc = "done"
  /\ sin.viewportFilter.present
  /\ sin.viewportFilter.viewportInfo.height = 500
  /\ Len(sin.axNodes) = 4
  /\ sin.axNodes[2].childIds = <<"3">>
  /\ HasBox(sin.viewportFilter, "2")
  /\ BoxFor(sin.viewportFilter, "2").y = 1000
  /\ BoxFor(sin.viewportFilter, "2").height = 10
  /\ ~HasBox(sin.viewportFilter, "3")
  /\ OwnBoxInView(sin.viewportFilter, "4")
  /\ ~Includes(html, <<"B">>)
  /\ ~Includes(html, <<"C">>)
  /\ Includes(html, <<"D">>)

(***************************************************************************)
(* ContentExtractor.getPageSnapshot as a state machine.  Every await of   *)
(* the code is a point where a response of the instrumentation channel    *)
(* arrives; a response is a result or a rejection.  The per-node tasks of *)
(* a batch are the async callbacks of batch.map: each runs up to its      *)
(* first await when the batch is created, so the first request of every   *)
(* task of a batch is in flight as soon as the batch starts.              *)
(* A node is named by its position 1..n in the array the lookup covers.   *)
(***************************************************************************)
MaxLookupNodes == 3
\* batchSize of getEventListeners (20 in the source) and of getNodeBoundingBoxes (50),
\* scaled down so that a lookup over MaxLookupNodes nodes runs more than one batch
ListenerBatchSize == 2
BoxBatchSize == 2

\* the requests parseIframe and attachToIframe send while axTreeToHtml recurses into frames
FrameRequests ==
  {"DOM.describeNode", "frame Accessibility.getFullAXTree", "Target.getTargets",
   "Target.attachToTarget", "Accessibility.enable"}

InFlight == {"DOM.resolveNode", "DOMDebugger.getEventListeners", "Runtime.releaseObject",
             "DOM.getBoxModel"}

\* positions i .. i + batchSize - 1 of the array, 0-based like slice(i, i + batchSize)
Batch(l) == {p \in 1..l.n : l.i < p /\ p <= l.i + l.batchSize}

\* batch.map(async ...) has sent the first request of every task of the batch
IssueBatch(l, first) ==
  [l EXCEPT !.promises = [p \in 1..l.n |-> IF p \in Batch(l) THEN first ELSE l.promises[p]]]

\* the call of a lookup function: locals initialised, the first batch created
EnterLookup(fn, n, batchSize, first) ==
  IssueBatch([fn |-> fn, n |-> n, batchSize |-> batchSize, i |-> 0,
              promises |-> [p \in 1..n |-> "unstarted"],
              map |-> {}, acquired |-> {}, released |-> {}, rejected |-> {}], first)

AllSettled_AnySettled(l) == \E p \in Batch(l) : l.promises[p] = "settled"

\* await Promise.all(promises): no task rejects (each has its own try/catch), so the
\* await resumes when every task of the batch has settled
AllSettled(l) == \A p \in Batch(l) : l.promises[p] = "settled"

PassInit ==
  /\ ppc = "capture"
  /\ \E viewportOnly \in BOOLEAN, n \in 0..MaxLookupNodes :
       pin = [viewportOnly |-> viewportOnly, n |-> n]
  /\ lookup = NoLookup
  /\ listenerMap = <<>>
  /\ boundingBoxes = <<>>
  /\ failed = {}
  /\ dpc = "idle" /\ snapshot = <<>> /\ nodeMap = <<>> /\ childrenMap = <<>>
  /\ detectedPdf = FALSE /\ meta = <<>> /\ pointerNodes = <<>>
  /\ spc = "idle" /\ sin = <<>> /\ html = <<>>
  /\ frame = [pc |-> "idle"]
  /\ RestIdle

\* Promise.all([captureSnapshot(tabId), getOriginAXTree({tabId})]), then analyzeSnapshot
\* and the call of getEventListeners
Capture ==
  /\ ppc = "capture"
  /\ \E rejected \in SUBSET {"DOMSnapshot.captureSnapshot", "Accessibility.getFullAXTree"} :
       /\ failed' = failed \cup rejected
       /\ IF rejected # {}
          THEN ppc' = "threw" /\ lookup' = lookup
          ELSE /\ ppc' = "listeners"
               /\ lookup' = EnterLookup("getEventListeners", pin.n, ListenerBatchSize,
                                        "DOM.resolveNode")
  /\ UNCHANGED <<pin, listenerMap, boundingBoxes, dvars, svars, fvars, xvars>>

\* the task's catch block: the node's lookup is over
Caught(l, p, request) ==
  /\ lookup' = [l EXCEPT !.promises[p] = "settled", !.rejected = @ \cup {p}]
  /\ failed' = failed \cup {request}

\* const { object } = await sendCommand('DOM.resolveNode'); if (object.objectId) ...
ResolveNodeResponds(p) ==
  /\ lookup.fn = "getEventListeners"
  /\ lookup.promises[p] = "DOM.resolveNode"
  /\ \/ /\ lookup' = [lookup EXCEPT !.promises[p] = "DOMDebugger.getEventListeners",
                                    !.acquired = @ \cup {p}]
        /\ failed' = failed
     \/ /\ lookup' = [lookup EXCEPT !.promises[p] = "settled"]
        /\ failed' = failed
     \/ Caught(lookup, p, "DOM.resolveNode")
  /\ UNCHANGED <<ppc, pin, listenerMap, boundingBoxes, dvars, svars, fvars, xvars>>

\* const { listeners } = await sendCommand('DOMDebugger.getEventListeners');
\* if (listeners?.length) listenerMap.set(...); then Runtime.releaseObject is sent
GetEventListenersResponds(p) ==
  /\ lookup.fn = "getEventListeners"
  /\ lookup.promises[p] = "DOMDebugger.getEventListeners"
  /\ \/ \E found \in BOOLEAN :
          /\ lookup' = [lookup EXCEPT !.promises[p] = "Runtime.releaseObject",
                                      !.map = IF found THEN @ \cup {p} ELSE @,
                                      !.released = @ \cup {p}]
          /\ failed' = failed
     \/ Caught(lookup, p, "DOMDebugger.getEventListeners")
  /\ UNCHANGED <<ppc, pin, listenerMap, boundingBoxes, dvars, svars, fvars, xvars>>

\* await sendCommand('Runtime.releaseObject'): the last statement of the try block
ReleaseObjectResponds(p) ==
  /\ lookup.fn = "getEventListeners"
  /\ lookup.promises[p] = "Runtime.releaseObject"
  /\ \/ /\ lookup' = [lookup EXCEPT !.promises[p] = "settled"]
        /\ failed' = failed
     \/ Caught(lookup, p, "Runtime.releaseObject")
  /\ UNCHANGED <<ppc, pin, listenerMap, boundingBoxes, dvars, svars, fvars, xvars>>

\* const result = await sendCommand('DOM.getBoxModel'); if (result.model.content) set(...)
\* (a result without a model raises a TypeError inside the try block)
GetBoxModelResponds(p) ==
  /\ lookup.fn = "getNodeBoundingBoxes"
  /\ lookup.promises[p] = "DOM.getBoxModel"
  /\ \/ \E content \in BOOLEAN :
          /\ lookup' = [lookup EXCEPT !.promises[p] = "settled",
                                      !.map = IF content THEN @ \cup {p} ELSE @]
          /\ failed' = failed
     \/ Caught(lookup, p, "DOM.getBoxModel")
  /\ UNCHANGED <<ppc, pin, listenerMap, boundingBoxes, dvars, svars, fvars, xvars>>

\* await Promise.all(promises) resumes; i += batchSize; the next batch is created
NextBatch ==
  /\ lookup.fn # "none"
  /\ AllSettled(lookup)
  /\ lookup.i + lookup.batchSize < lookup.n
  /\ lookup' = IssueBatch([lookup EXCEPT !.i = @ + lookup.batchSize],
                          IF lookup.fn = "getEventListeners" THEN "DOM.resolveNode"
                          ELSE "DOM.getBoxModel")
  /\ UNCHANGED <<ppc, pin, listenerMap, boundingBoxes, failed, dvars, svars, fvars, xvars>>

\* getEventListeners returns listenerMap; with viewportOnly, getViewportDimensions is called
ListenersReturn ==
  /\ ppc = "listeners"
  /\ AllSettled(lookup)
  /\ lookup.i + lookup.batchSize >= lookup.n
  /\ listenerMap' = lookup.map
  /\ lookup' = NoLookup
  /\ ppc' = IF pin.viewportOnly THEN "metrics" ELSE "synthesize"
  /\ UNCHANGED <<pin, boundingBoxes, failed, dvars, svars, fvars, xvars>>

\* getViewportDimensions: await sendCommand('Page.getLayoutMetrics') outside any try
\* block; then getNodeBoundingBoxes is called
LayoutMetricsResponds ==
  /\ ppc = "metrics"
  /\ \/ /\ ppc' = "boxes"
        /\ lookup' = EnterLookup("getNodeBoundingBoxes", pin.n, BoxBatchSize, "DOM.getBoxModel")
        /\ failed' = failed
     \/ /\ ppc' = "threw"
        /\ lookup' = lookup
        /\ failed' = failed \cup {"Page.getLayoutMetrics"}
  /\ UNCHANGED <<pin, listenerMap, boundingBoxes, dvars, svars, fvars, xvars>>

\* getNodeBoundingBoxes returns boundingBoxes
BoxesReturn ==
  /\ ppc = "boxes"
  /\ AllSettled(lookup)
  /\ lookup.i + lookup.batchSize >= lookup.n
  /\ boundingBoxes' = lookup.map
  /\ lookup' = NoLookup
  /\ ppc' = "synthesize"
  /\ UNCHANGED <<pin, listenerMap, failed, dvars, svars, fvars, xvars>>

\* await axTreeToHtml(...): every request of the frame recursion is sent inside the
\* try blocks of parseIframe, whose outer catch returns null; then { html, meta, isPdf }
AxTreeToHtmlReturns ==
  /\ ppc = "synthesize"
  /\ \E rejected \in SUBSET FrameRequests : failed' = failed \cup rejected
  /\ ppc' = "returned"
  /\ UNCHANGED <<pin, lookup, listenerMap, boundingBoxes, dvars, svars, fvars, xvars>>

PassNext ==
  \/ Capture
  \/ \E p \in 1..MaxLookupNodes :
       \/ (p <= pin.n /\ ResolveNodeResponds(p))
       \/ (p <= pin.n /\ GetEventListenersResponds(p))
       \/ (p <= pin.n /\ ReleaseObjectResponds(p))
       \/ (p <= pin.n /\ GetBoxModelResponds(p))
  \/ NextBatch
  \/ ListenersReturn
  \/ LayoutMetricsResponds
  \/ BoxesReturn
  \/ AxTreeToHtmlReturns

SpecPass == PassInit /\ [][PassNext]_vars

(***************************************************************************)
(* Properties of the pass.                                                *)
(***************************************************************************)
RootRequests == {"DOMSnapshot.captureSnapshot", "Accessibility.getFullAXTree"}

\* C13: getPageSnapshot fails only when the root accessibility-tree fetch or the root
\* snapshot capture fails; a rejection of any other request of the pass is recovered
\* locally and the call still returns.
C13_FailsOnlyOnRootFetch ==
  ppc \in {"returned", "threw"} => (ppc = "threw" <=> failed \cap RootRequests # {})

\* the same without viewportOnly, where no viewport metrics are requested
FailsOnlyOnRootFetchWithoutViewport ==
  (ppc \in {"returned", "threw"} /\ ~pin.viewportOnly)
    => (ppc = "threw" <=> failed \cap RootRequests # {})

\* the batch size the source gives the running lookup
BatchSizeOf(fn) == IF fn = "getEventListeners" THEN ListenerBatchSize ELSE BoxBatchSize

\* the per-node lookups that have sent a request and have not settled
InProgress(l) == {p \in 1..l.n : l.promises[p] \in InFlight}

\* the number of the batch the p-th node of the array falls in
BatchOf(l, p) == (p - 1) \div BatchSizeOf(l.fn)

\* C14: in both lookups the per-node lookups in progress never exceed the batch size, all
\* belong to one batch, and no lookup of a later batch has sent a request before every
\* lookup of the earlier batches has settled.
C14_BatchesBoundedAndSequential ==
  lookup.fn # "none" =>
    /\ Cardinality(InProgress(lookup)) <= BatchSizeOf(lookup.fn)
    /\ \A p, q \in InProgress(lookup) : BatchOf(lookup, p) = BatchOf(lookup, q)
    /\ \A p, q \in 1..lookup.n :
         (BatchOf(lookup, p) < BatchOf(lookup, q) /\ lookup.promises[q] # "unstarted")
           => lookup.promises[p] = "settled"

\* a later batch is in progress after a full first batch in which a lookup was rejected
C14_Witness ==
  /\ lookup.fn # "none"
  /\ lookup.i > 0
  /\ InProgress(lookup) # {}
  /\ lookup.rejected # {}
  /\ Cardinality({p \in 1..lookup.n : lookup.promises[p] = "settled"}) = BatchSizeOf(lookup.fn)

\* C15: every handle resolveNode returned during the listener lookup has had releaseObject
\* invoked on it by the time the lookup of its node finishes, whatever the outcome of
\* the getEventListeners request.
C15_HandleReleasedBeforeTaskEnds ==
  lookup.fn = "getEventListeners" =>
    \A p \in lookup.acquired : lookup.promises[p] = "settled" => p \in lookup.released

\* C16: a node whose lookup fails at any step is absent from the result map (and the
\* failure leaves the other nodes' entries and lookups alone, see LookupFailuresIsolated).
C16_FailedNodeAbsentFromMap ==
  lookup.fn # "none" => lookup.rejected \cap lookup.map = {}

\* a rejection changes nothing but the lookup of its own node: the map keeps its
\* entries and every other lookup stays where it is
LookupFailuresIsolated ==
  [][(lookup.fn # "none" /\ lookup'.fn = lookup.fn /\ lookup'.rejected # lookup.rejected)
       => /\ lookup'.map = lookup.map
          /\ \A q \in 1..lookup.n :
               q \notin lookup'.rejected \ lookup.rejected
                 => lookup'.promises[q] = lookup.promises[q]]_vars

\* the box lookup alone: a rejected node has no entry
BoxFailedNodeAbsentFromMap ==
  lookup.fn = "getNodeBoundingBoxes" => lookup.rejected \cap lookup.map = {}

(***************************************************************************)
(* parseIframe as a state machine: frame.pc names the request or timer    *)
(* the call is waiting for.  results and waits are the node counts the    *)
(* fetches of the running getPopulatedAxTree call returned and the delays *)
(* it slept; a response whose nodes member is missing counts Undefined.   *)
(***************************************************************************)
retryDelay == 300

RetryWait_Constant(attempts) == retryDelay

\* setTimeout(resolve, retryDelay * attempts)
RetryWait(attempts) == retryDelay * attempts

\* node counts of the responses of Accessibility.getFullAXTree
NodeCounts == {Undefined, 0, 2, 3}

\* return null
ReturnNull(f) == [f EXCEPT !.pc = "returned", !.content = FALSE]

\* a call of getPopulatedAxTree: attempts = 0 and the first getTreeFn() is awaited
EnterPopulatedWait(f, path) ==
  [f EXCEPT !.pc = "getTreeFn", !.path = path, !.attempts = 0, !.results = <<>>,
            !.waits = <<>>, !.nodes = 0]

\* the catch of the inner try: attachToIframe is called and awaits getTargets
EnterFallback(f) == [f EXCEPT !.pc = "Target.getTargets", !.attaches = @ + 1]

\* the request is rejected (or the call raises) while the call is on path f.path
Reject(f, request) == [f EXCEPT !.rejected = @ \cup {<<f.path, request>>}]

IframeInit ==
  /\ \E backendDOMNodeId \in 0..1 :
       frame = [pc |-> "call", backendDOMNodeId |-> backendDOMNodeId, path |-> "none",
                attempts |-> 0, results |-> <<>>, waits |-> <<>>, nodes |-> 0,
                attaches |-> 0, rejected |-> {}, content |-> FALSE]
  /\ dpc = "idle" /\ snapshot = <<>> /\ nodeMap = <<>> /\ childrenMap = <<>>
  /\ detectedPdf = FALSE /\ meta = <<>> /\ pointerNodes = <<>>
  /\ spc = "idle" /\ sin = <<>> /\ html = <<>>
  /\ ppc = "idle" /\ pin = <<>> /\ lookup = [fn |-> "none"]
  /\ listenerMap = <<>> /\ boundingBoxes = <<>> /\ failed = {}
  /\ RestIdle

\* if (!axNode.backendDOMNodeId) return null; else DOM.describeNode is sent
ParseIframeCalled ==
  /\ frame.pc = "call"
  /\ frame' = IF frame.backendDOMNodeId = 0 THEN ReturnNull(frame)
              ELSE [frame EXCEPT !.pc = "DOM.describeNode"]
  /\ UNCHANGED <<dvars, svars, pvars, xvars>>

\* const { node } = await sendCommand('DOM.describeNode'); if (!node.frameId) return null
DescribeNodeResponds ==
  /\ frame.pc = "DOM.describeNode"
  /\ \/ frame' = ReturnNull(Reject(frame, "DOM.describeNode"))
     \/ frame' = ReturnNull(frame)
     \/ frame' = EnterPopulatedWait(frame, "direct")
  /\ UNCHANGED <<dvars, svars, pvars, xvars>>

Raised_AlwaysFallback(f, request) == EnterFallback(Reject(f, request))

\* where a raised error goes: the inner catch on the direct path, the outer one after it
Raised(f, request) ==
  IF f.path = "direct" THEN EnterFallback(Reject(f, request))
  ELSE ReturnNull(Reject(f, request))

\* lastResult = await getTreeFn(), with the loop of getPopulatedAxTree up to the next await
Fetched(f, count) ==
  LET g == [f EXCEPT !.results = Append(@, count), !.nodes = count]
  IN  IF count # Undefined /\ count > 2 THEN [g EXCEPT !.pc = "axTreeToHtml"]
      ELSE IF f.attempts + 1 < maxAttempts
      THEN [g EXCEPT !.pc = "setTimeout", !.attempts = @ + 1,
                     !.waits = Append(@, RetryWait(f.attempts + 1))]
      ELSE [g EXCEPT !.pc = "axTreeToHtml", !.attempts = @ + 1]

GetTreeResponds ==
  /\ frame.pc = "getTreeFn"
  /\ \/ \E count \in NodeCounts : frame' = Fetched(frame, count)
     \/ frame' = Raised(frame, "Accessibility.getFullAXTree")
  /\ UNCHANGED <<dvars, svars, pvars, xvars>>

\* the timer of the retry delay fires and the loop calls getTreeFn() again
TimerFires ==
  /\ frame.pc = "setTimeout"
  /\ frame' = [frame EXCEPT !.pc = "getTreeFn"]
  /\ UNCHANGED <<dvars, svars, pvars, xvars>>

\* return await axTreeToHtml(tabContext, nodes, ...): a missing nodes member raises a
\* TypeError in axNodes.map; an empty array has no root and yields ''
FrameSynthesized ==
  /\ frame.pc = "axTreeToHtml"
  /\ IF frame.nodes = Undefined
     THEN frame' = Raised(frame, "axTreeToHtml")
     ELSE \E content \in BOOLEAN :
            /\ content => frame.nodes > 0
            /\ frame' = [frame EXCEPT !.pc = "returned", !.content = content]
  /\ UNCHANGED <<dvars, svars, pvars, xvars>>

\* attachToIframe: const target = (await getTargets()).find(...); if (!target) throw;
\* then chrome.debugger.attach is sent
GetTargetsResponds ==
  /\ frame.pc = "Target.getTargets"
  /\ \/ frame' = ReturnNull(Reject(frame, "Target.getTargets"))
     \/ frame' = ReturnNull(Reject(frame, "Target not found"))
     \/ frame' = [frame EXCEPT !.pc = "Target.attach"]
  /\ UNCHANGED <<dvars, svars, pvars, xvars>>

\* try { await chrome.debugger.attach(debuggee, '1.3') } catch { console.warn }
AttachResponds ==
  /\ frame.pc = "Target.attach"
  /\ \/ frame' = [frame EXCEPT !.pc = "Accessibility.enable"]
     \/ frame' = [Reject(frame, "Target.attach") EXCEPT !.pc = "Accessibility.enable"]
  /\ UNCHANGED <<dvars, svars, pvars, xvars>>

\* try { await sendCommand(debuggee, 'Accessibility.enable') } catch { console.warn };
\* return debuggee; then getPopulatedAxTree against the target
EnableResponds ==
  /\ frame.pc = "Accessibility.enable"
  /\ \/ frame' = EnterPopulatedWait(frame, "attached")
     \/ frame' = EnterPopulatedWait(Reject(frame, "Accessibility.enable"), "attached")
  /\ UNCHANGED <<dvars, svars, pvars, xvars>>

IframeNext ==
  \/ ParseIframeCalled
  \/ DescribeNodeResponds
  \/ GetTreeResponds
  \/ TimerFires
  \/ FrameSynthesized
  \/ GetTargetsResponds
  \/ AttachResponds
  \/ EnableResponds

SpecIframe == IframeInit /\ [][IframeNext]_vars

(***************************************************************************)
(* Properties of the frame recursion.                                     *)
(***************************************************************************)
InPopulatedWait == frame.pc \in {"getTreeFn", "setTimeout", "axTreeToHtml"}

AllUnpopulated(results) == \A k \in 1..Len(results) : results[k] = Undefined \/ results[k] <= 2

\* C17: a populated-tree wait fetches at most 4 times, returns on the first fetch whose
\* node count exceeds 2, sleeps 300*k ms after the k-th unpopulated fetch for k = 1..3 and
\* not after the 4th, and after the 4th unpopulated fetch returns the last result.
C17_PopulatedWaitBoundedLinearBackoff ==
  InPopulatedWait =>
    /\ Len(frame.results) <= 4
    /\ \A k \in 1..Len(frame.waits) : frame.waits[k] = 300 * k
    /\ frame.pc \in {"getTreeFn", "setTimeout"}
         => /\ AllUnpopulated(frame.results)
            /\ Len(frame.results) <= 3
            /\ Len(frame.waits) = Len(frame.results)
    /\ frame.pc = "axTreeToHtml"
         => /\ Len(frame.results) >= 1
            /\ frame.nodes = frame.results[Len(frame.results)]
            /\ AllUnpopulated(SubSeq(frame.results, 1, Len(frame.results) - 1))
            /\ \/ /\ ~AllUnpopulated(frame.results)
                  /\ Len(frame.waits) = Len(frame.results) - 1
               \/ /\ AllUnpopulated(frame.results)
                  /\ Len(frame.results) = 4
                  /\ Len(frame.waits) = 3

\* the wait against an attached target gave up after four unpopulated fetches
C17_Witness ==
  /\ frame.pc = "axTreeToHtml"
  /\ frame.path = "attached"
  /\ frame.results = <<0, 2, 0, 2>>
  /\ frame.waits = <<300, 600, 900>>

DirectPathFailed ==
  {<<"direct", "Accessibility.getFullAXTree">>, <<"direct", "axTreeToHtml">>} \cap frame.rejected # {}

\* the requests whose failure the iframe answers with no content
RaisedOutOfFallback ==
  {<<"none", "DOM.describeNode">>, <<"direct", "Target.getTargets">>,
   <<"direct", "Target not found">>, <<"attached", "Accessibility.getFullAXTree">>}

\* C18: a failure of the direct path triggers exactly one attach followed by the same
\* wait against the target; if describing the node, attaching or the fallback fetch
\* fails the iframe contributes no content; parseIframe always returns.
C18_FallbackOnceFailuresYieldNothing ==
  frame.pc = "returned" =>
    /\ frame.attaches = (IF DirectPathFailed THEN 1 ELSE 0)
    /\ (RaisedOutOfFallback \cup {<<"direct", "Target.attach">>}) \cap frame.rejected # {}
         => ~frame.content

\* C18 (amended): a failure of the direct path triggers exactly one attachToIframe call
\* followed by the same wait against the target; if describing the node, finding the
\* frame's target or the fallback fetch fails the iframe contributes no content, and
\* parseIframe always returns.  A rejected attach or enable request is only logged.
C18_FallbackOnceRaisedFailuresYieldNothing ==
  frame.pc = "returned" =>
    /\ frame.attaches = (IF DirectPathFailed THEN 1 ELSE 0)
    /\ RaisedOutOfFallback \cap frame.rejected # {} => ~frame.content

\* the direct fetch failed, the target was attached once and the fetch against it failed
C18_Witness ==
  /\ frame.pc = "returned"
  /\ DirectPathFailed
  /\ frame.attaches = 1
  /\ <<"attached", "Accessibility.getFullAXTree">> \in frame.rejected
  /\ ~frame.content

(***************************************************************************)
(* Pages with embedded frames.  The top document holds a link and an      *)
(* iframe element bound to frame A; the document of frame A holds a link  *)
(* and, in one variant, an iframe element bound to frame B; the document  *)
(* of frame B holds a link.  Backend node ids are distinct across the     *)
(* three documents.  A route says how the channel answers for a frame.    *)
(***************************************************************************)
FrameA == <<"A">>
FrameB == <<"B">>

LinkTpl == Tpl(Lit.link, <<"G","o">>, <<Focusable>>)

\* the iframe element of the top document: with or without a title, with or without
\* the focusable property or an ARIA state
IframeTpls ==
  { Tpl(Lit.Iframe, name, props) :
      name \in {<<>>, <<"A","d">>},
      props \in {<<>>, <<Focusable>>, <<Prop(Lit.busy, BoolVal(TRUE))>>} }

\* the nodes of a document whose first node has backend id base + 1
Rebased(axNodes, base) ==
  [i \in 1..Len(axNodes) |-> [axNodes[i] EXCEPT !.backendDOMNodeId = @ + base]]

TopDocument(iframeTpl) == AxTree(<<0, 1, 1>>, <<RootTpl, LinkTpl, iframeTpl>>)

DocumentA(nested) ==
  Rebased(AxTree(<<0, 1, 1>>,
                 <<RootTpl, LinkTpl,
                   IF nested THEN Tpl(Lit.Iframe, <<>>, <<>>)
                   ELSE Tpl(Lit.StaticText, <<"H","i">>, <<>>)>>), 3)

DocumentB ==
  Rebased(AxTree(<<0, 1, 1>>, <<RootTpl, LinkTpl, Tpl(Lit.StaticText, <<"H","i">>, <<>>)>>), 6)

Routes == {"direct", "late", "attached", "unreachable", "undescribed"}

Fetched1(nodes) == <<[ok |-> TRUE, nodes |-> nodes]>>

\* the first fetch finds the tree unpopulated, the second finds it whole
FetchedLate(nodes) == <<[ok |-> TRUE, nodes |-> <<>>], [ok |-> TRUE, nodes |-> nodes]>>

\* the answers of the channel for one frame reached through the iframe element iframeId
FrameChannel(route, iframeId, frameId, nodes) ==
  [describeNode |-> IF route = "undescribed" THEN EmptyMap
                    ELSE (iframeId :> [frameId |-> frameId]),
   frameTree |-> CASE route = "direct" -> (frameId :> Fetched1(nodes))
                   [] route = "late" -> (frameId :> FetchedLate(nodes))
                   [] OTHER -> EmptyMap,
   targetTree |-> IF route = "attached" THEN (frameId :> Fetched1(nodes)) ELSE EmptyMap,
   targets |-> IF route = "attached" THEN {frameId} ELSE {}]

Merged(a, b) ==
  [describeNode |-> a.describeNode @@ b.describeNode, frameTree |-> a.frameTree @@ b.frameTree,
   targetTree |-> a.targetTree @@ b.targetTree, targets |-> a.targets \cup b.targets]

IsFrameInput(s) ==
  \E iframeTpl \in IframeTpls, routeA \in Routes, routeB \in Routes, nested \in BOOLEAN :
    s = [axNodes |-> TopDocument(iframeTpl), cursorPointerNodes |-> EmptyMap,
         eventListenerMap |-> EmptyMap, frameContextId |-> <<>>, viewportFilter |-> NoFilter,
         channel |-> Merged(FrameChannel(routeA, 3, FrameA, DocumentA(nested)),
                            FrameChannel(routeB, 6, FrameB, DocumentB))]

FramesInit ==
  /\ DecodeIdle
  /\ PassIdle
  /\ RestIdle
  /\ spc = "ready"
  /\ IsFrameInput(sin)
  /\ html = <<>>

SpecFrames == FramesInit /\ [][SynthNext]_vars

(***************************************************************************)
(* Properties of pages with frames.                                       *)
(***************************************************************************)
\* the frame is reached through an attached target: the direct fetch fails
IsAttached(s, frameId) ==
  frameId \in s.channel.targets /\ frameId \notin DOMAIN s.channel.frameTree

\* the backend ids of the documents of frame A and of frame B
IdsOfA == {DocumentA(TRUE)[i].backendDOMNodeId : i \in 1..3}
IdsOfB == {DocumentB[i].backendDOMNodeId : i \in 1..3}
IdsOfTop == {1, 2, 3}

\* the backend ids of the nodes inside the subtree of a frame reached through an
\* attached target, the nodes of the frames nested below it included
IdsBelowAttached(s) ==
  (IF IsAttached(s, FrameA) THEN IdsOfA \cup IdsOfB ELSE {})
    \cup (IF IsAttached(s, FrameB) THEN IdsOfB ELSE {})

BareMarker(id) == <<" ">> \o Attr(Lit.node, IntToStr(id))

PrefixedMarker(targetId, id) == <<" ">> \o Attr(Lit.node, targetId \o <<":">> \o IntToStr(id))

\* C19: every node marker emitted for a node inside the subtree of a frame reached
\* through an attached target, nested frames included, is node="<targetId>:<id>", and a
\* marker emitted for a node outside any recursed frame is the bare id.
C19_MarkersPrefixedBelowAttachedFrame ==
  (spc = "done" /\ sin.channel.describeNode # EmptyMap) =>
    /\ \A id \in IdsBelowAttached(sin) : ~Includes(html, BareMarker(id))
    /\ \A id \in IdsOfTop, f \in {FrameA, FrameB} : ~Includes(html, PrefixedMarker(f, id))

\* the same for the frames that are themselves reached through an attached target
MarkersPrefixedInAttachedFrame ==
  (spc = "done" /\ sin.channel.describeNode # EmptyMap) =>
    /\ IsAttached(sin, FrameA) => \A id \in IdsOfA : ~Includes(html, BareMarker(id))
    /\ IsAttached(sin, FrameB) => \A id \in IdsOfB : ~Includes(html, BareMarker(id))
    /\ \A id \in IdsOfTop, f \in {FrameA, FrameB} : ~Includes(html, PrefixedMarker(f, id))

\* the link of frame A is marked with the target's prefix
MarkerPrefixedReached ==
  spc = "done" /\ IsAttached(sin, FrameA) /\ Includes(html, PrefixedMarker(FrameA, 5))

\* C20: for a node whose tag is iframe, non-empty content of the sub-extraction is the
\* node's whole output, and an empty sub-extraction makes the node contribute nothing.
C20_IframeIsContentOrNothing ==
  (spc = "done" /\ sin.channel.describeNode # EmptyMap) =>
    LET node == sin.axNodes[3]
        content == parseIframe(SinClosure, node)
    IN  NodeHtml(SinClosure, node) = content

\* the same for iframe elements without a title and without attributes of their own
UnadornedIframeIsContentOrNothing ==
  (spc = "done" /\ sin.channel.describeNode # EmptyMap) =>
    LET node == sin.axNodes[3]
        content == parseIframe(SinClosure, node)
    IN  (content # <<>> \/ (NameOf(node) = <<>> /\ ComputedAttributes(sin.axNodes, node) = <<>>))
          => NodeHtml(SinClosure, node) = content

(***************************************************************************)
(* axTreeToHtml step by step: the loop over the bounding boxes, the walk  *)
(* up the parentId links of every box in the viewport, the combobox       *)
(* marking, and the walk of buildHtmlRecursive with its visited map.  The *)
(* node arrays are arbitrary: parentId and childIds are independent, so a *)
(* node can be its own ancestor or the child of several parents.          *)
(***************************************************************************)
MaxMarkNodes == 3

\* the viewport the boxes are measured against
MarkViewport == [x |-> 0, y |-> 0, width |-> 100, height |-> 100]
BoxInside == [x |-> 0, y |-> 10, width |-> 10, height |-> 10]
BoxBelow == [x |-> 0, y |-> 200, width |-> 10, height |-> 10]

\* the nodes of an array with arbitrary links
Linked(parents, kids, roles) ==
  [i \in 1..Len(parents) |->
     [nodeId |-> NodeIds[i],
      parentId |-> IF parents[i] = 0 THEN "" ELSE NodeIds[parents[i]],
      childIds |-> kids[i],
      backendDOMNodeId |-> i,
      ignored |-> FALSE,
      role |-> StrVal(roles[i]),
      name |-> StrVal(<<"n">>),
      value |-> NoVal,
      properties |-> <<>>]]

\* childIds lists over the nodes below the root
KidLists == {<<>>, <<"2">>, <<"3">>, <<"2", "3">>, <<"3", "3">>}

\* the entries of a nodeBoundingBoxes map over the nodes below the root
BoxMaps ==
  {<<>>, <<[nodeId |-> "2", box |-> BoxInside]>>, <<[nodeId |-> "3", box |-> BoxInside]>>,
   <<[nodeId |-> "1", box |-> BoxInside], [nodeId |-> "3", box |-> BoxBelow]>>,
   <<[nodeId |-> "2", box |-> BoxBelow], [nodeId |-> "3", box |-> BoxInside]>>}

\* the state of a call that has built nodeMap and found the root (lines 202-210)
MarkCall(axNodes, viewportFilter) ==
  [pc |-> IF viewportFilter.present THEN "boxes" ELSE "walk",
   axNodes |-> axNodes, viewportFilter |-> viewportFilter,
   entry |-> 1, currentNode |-> "", iteration |-> 0, visibleNodeIds |-> <<>>,
   visited |-> <<>>, pending |-> <<axNodes[1].nodeId>>, entered |-> <<>>]

IsMarkInput(s) ==
  \E parents \in [1..MaxMarkNodes -> 0..MaxMarkNodes], kids \in [1..MaxMarkNodes -> KidLists] :
    \E combo \in BOOLEAN, boxes \in BoxMaps, present \in BOOLEAN :
      /\ parents[1] = 0 /\ \A i \in 2..MaxMarkNodes : parents[i] # 0
      /\ kids[1] # <<>>
      /\ present \/ boxes = <<>>
      /\ s = MarkCall(Linked(parents, kids,
                             [i \in 1..MaxMarkNodes |->
                                IF i = 1 THEN Lit.RootWebArea
                                ELSE IF i = 2 /\ combo THEN Lit.combobox ELSE Lit.link]),
                      [present |-> present, viewportInfo |-> MarkViewport,
                       nodeBoundingBoxes |-> boxes])

MarkInit ==
  /\ IsMarkInput(mark)
  /\ PassIdle
  /\ DecodeIdle
  /\ SynthIdle
  /\ ptr = Idle /\ waiter = Idle /\ page = Idle /\ keyboard = Idle

\* nodeMap.get(id) as the id of the node found, "" for undefined
NodeMapGet(axNodes, id) == IF HasNode(axNodes, id) THEN id ELSE ""

\* one iteration of the loop over nodeBoundingBoxes.entries() up to the while loop
NextBox(m, boxes) ==
  IF m.entry > Len(boxes)
  THEN [m EXCEPT !.pc = "walk",
                 !.visibleNodeIds = MarkComboboxes(m.axNodes, m.visibleNodeIds, 1,
                                                   m.visibleNodeIds)]
  ELSE IF isNodeInViewport(boxes[m.entry].box, m.viewportFilter.viewportInfo, FALSE)
  THEN [m EXCEPT !.pc = "ancestors",
                 !.visibleNodeIds = SetAdd(m.visibleNodeIds, boxes[m.entry].nodeId),
                 !.currentNode = NodeMapGet(m.axNodes, boxes[m.entry].nodeId)]
  ELSE [m EXCEPT !.entry = m.entry + 1]

\* The loop over the boxes takes its next entry; after the last one the combobox
\* descendants are marked (that loop skips every id already marked) and the walk starts.
MarkBox ==
  /\ mark.pc = "boxes"
  /\ mark' = NextBox(mark, mark.viewportFilter.nodeBoundingBoxes)
  /\ UNCHANGED <<dvars, svars, pvars, fvars, ptr, waiter, page, keyboard>>

\* one test of while (currentNode?.parentId) and the body it guards; iteration is the
\* parity of the number of times the body has run for the current entry, so that a run
\* of the body is a step even when it leaves currentNode where it was
NextAncestor(m, parentId) ==
  IF m.currentNode # "" /\ parentId # ""
  THEN [m EXCEPT !.visibleNodeIds = SetAdd(m.visibleNodeIds, parentId),
                 !.currentNode = NodeMapGet(m.axNodes, parentId),
                 !.iteration = 1 - m.iteration]
  ELSE [m EXCEPT !.pc = "boxes", !.entry = m.entry + 1, !.iteration = 0]

MarkAncestor ==
  /\ mark.pc = "ancestors"
  /\ mark' = NextAncestor(mark, IF mark.currentNode = "" THEN ""
                                ELSE GetNode(mark.axNodes, mark.currentNode).parentId)
  /\ UNCHANGED <<dvars, svars, pvars, fvars, ptr, waiter, page, keyboard>>

\* whether buildHtmlRecursive goes on to buildChildrenHtml for a node it has entered
\* (no node of these arrays is interactive, hidden or generic)
ReachesChildren(m, axNode, role) ==
  /\ ~(m.viewportFilter.present /\ ~SetHas(m.visibleNodeIds, axNode.nodeId))
  /\ role # Lit.StaticText
  /\ getAxNodeProperty(axNode, Lit.hidden) # Lit.true
  /\ role # Lit.ListMarker
  /\ getTagNameForAxNode(role, axNode, FALSE, axNode) # Lit.iframe

\* the children buildChildrenHtml calls buildHtmlRecursive on, in order
KnownChildren(axNodes, axNode) ==
  SelectSeq(axNode.childIds, LAMBDA id : HasNode(axNodes, id))

\* one call of buildHtmlRecursive up to its first recursive call: the calls it makes for
\* its children run before the calls still pending for its later siblings
EnterNode(m, axNode) ==
  IF SetHas(m.visited, axNode.nodeId)
  THEN [m EXCEPT !.pending = Tail(m.pending)]
  ELSE [m EXCEPT !.visited = Append(m.visited, axNode.nodeId),
                 !.entered = Append(m.entered, axNode.nodeId),
                 !.pending = (IF ReachesChildren(m, axNode, getAxNodeValue(axNode.role))
                              THEN KnownChildren(m.axNodes, axNode) ELSE <<>>)
                             \o Tail(m.pending)]

BuildHtmlRecursive ==
  /\ mark.pc = "walk"
  /\ mark.pending # <<>>
  /\ mark' = EnterNode(mark, GetNode(mark.axNodes, Head(mark.pending)))
  /\ UNCHANGED <<dvars, svars, pvars, fvars, ptr, waiter, page, keyboard>>

\* the call on the root has returned
MarkReturns ==
  /\ mark.pc = "walk"
  /\ mark.pending = <<>>
  /\ mark' = [mark EXCEPT !.pc = "done"]
  /\ UNCHANGED <<dvars, svars, pvars, fvars, ptr, waiter, page, keyboard>>

MarkNext == MarkBox \/ MarkAncestor \/ BuildHtmlRecursive \/ MarkReturns

SpecMark == MarkInit /\ [][MarkNext]_vars

\* a running call keeps running: JavaScript runs the synchronous loops to completion and
\* every awaited promise of the walk is settled by the walk itself
SpecMarkLive == MarkInit /\ [][MarkNext]_vars /\ WF_vars(MarkNext)

\* C21: synthesize terminates on every finite node array, with or without a viewport
\* filter, whatever cycles or shared children its links hold.
C21_SynthesizeTerminates == <>(mark.pc = "done")

\* no node id passes the visited guard twice
EnteredAtMostOnce ==
  \A i, j \in 1..Len(mark.entered) : mark.entered[i] = mark.entered[j] => i = j

\* without a viewport filter the call returns
TerminatesWithoutFilter == ~mark.viewportFilter.present ~> mark.pc = "done"

\* the walk up the parentId links is on a node it has already left
AncestorWalkRepeats ==
  /\ mark.pc = "ancestors"
  /\ mark.currentNode # ""
  /\ SetHas(mark.visibleNodeIds, GetNode(mark.axNodes, mark.currentNode).parentId)
  /\ GetNode(mark.axNodes, mark.currentNode).parentId = mark.currentNode

(***************************************************************************)
(* findCursorPointerNodes step by step.  The recursion of                 *)
(* markChildrenInteractive is a stack of running calls, each with the     *)
(* children list it iterates and its position in it.  The parentIndex     *)
(* column of the snapshots is arbitrary, cycles included.                 *)
(***************************************************************************)
MaxPtrNodes == 3
\* recursive calls one run is followed through
MaxDescents == 8

\* backendNodeId columns: unique ids, a repeated id, a node without an id
BackendColumns(n) ==
  { [i \in 1..n |-> i], [i \in 1..n |-> IF i = n THEN 1 ELSE i],
    [i \in 1..n |-> IF i = 2 THEN 0 ELSE i] }

\* a one-document snapshot of n rendered elements with the given columns
PtrSnapshot(parentIndex, backendNodeId, pointers) ==
  [strings |-> Strings,
   documents |->
     << [nodes |-> [parentIndex |-> parentIndex,
                    nodeType |-> [i \in 1..Len(parentIndex) |-> ELEMENT_NODE],
                    nodeName |-> [i \in 1..Len(parentIndex) |-> Str(TreeNames[(i % 3) + 1])],
                    backendNodeId |-> backendNodeId,
                    attributes |-> [i \in 1..Len(parentIndex) |-> <<>>]],
         layout |-> [nodeIndex |-> [k \in 1..Len(parentIndex) |-> k - 1],
                     styles |-> [k \in 1..Len(parentIndex) |->
                                   IF (k - 1) \in pointers THEN <<Str(Lit.pointer)>>
                                   ELSE <<Str(Lit.auto)>>]],
         textBoxes |-> [layoutIndex |-> <<>>]] >>]

\* the state of a call that has built childrenMap (lines 934-946)
PtrCall(snap) ==
  [pc |-> "layout", snapshot |-> snap, childrenMap |-> MergeDocuments(snap, 1, EmptyMap),
   document |-> 1, entry |-> 0, pointerNodes |-> EmptyMap, processedBackendIds |-> {},
   calls |-> <<>>, descents |-> <<>>]

IsPtrInput(s) ==
  \E parentIndex \in [1..MaxPtrNodes -> -1..(MaxPtrNodes - 1)] :
    \E backendNodeId \in BackendColumns(MaxPtrNodes), pointers \in SUBSET (0..(MaxPtrNodes - 1)) :
      /\ Cardinality(pointers) <= 2
      /\ s = PtrCall(PtrSnapshot(parentIndex, backendNodeId, pointers))

PtrInit ==
  /\ IsPtrInput(ptr)
  /\ PassIdle
  /\ DecodeIdle
  /\ SynthIdle
  /\ mark = Idle /\ waiter = Idle /\ page = Idle /\ keyboard = Idle

\* markChildrenInteractive is entered: const children = childrenMap.get(parentNodeIndex)
Called(p, parentNodeIndex) ==
  Append(p.calls,
         [children |-> IF parentNodeIndex \in DOMAIN p.childrenMap
                       THEN p.childrenMap[parentNodeIndex] ELSE <<>>,
          k |-> 1])

\* pointerNodes.set(id, nodeName); processedBackendIds.add(id); markChildrenInteractive(...)
Propagate(p, nodes, nodeIndex, backendNodeId, calls) ==
  [p EXCEPT !.pointerNodes = MapSet(p.pointerNodes, backendNodeId,
                                    LowerNodeName(p.snapshot, nodes, nodeIndex)),
            !.processedBackendIds = p.processedBackendIds \cup {backendNodeId},
            !.calls = calls]

\* one callback of layout.nodeIndex.forEach, up to the call it makes
LayoutEntry(p, doc) ==
  IF p.entry >= Len(doc.layout.nodeIndex)
  THEN [p EXCEPT !.document = p.document + 1, !.entry = 0]
  ELSE IF \/ StringOr(p.snapshot, At(At(doc.layout.styles, p.entry), 0), <<>>) # Lit.pointer
          \/ Falsy(At(doc.nodes.backendNodeId, At(doc.layout.nodeIndex, p.entry)))
  THEN [p EXCEPT !.entry = p.entry + 1]
  ELSE [Propagate(p, doc.nodes, At(doc.layout.nodeIndex, p.entry),
                  At(doc.nodes.backendNodeId, At(doc.layout.nodeIndex, p.entry)),
                  Called(p, At(doc.layout.nodeIndex, p.entry)))
          EXCEPT !.entry = p.entry + 1]

\* The loop over the layout entries goes on once the call made for the last entry returned
PtrLayout ==
  /\ ptr.pc = "layout"
  /\ ptr.calls = <<>>
  /\ ptr.document <= Len(ptr.snapshot.documents)
  /\ ptr' = LayoutEntry(ptr, ptr.snapshot.documents[ptr.document])
  /\ UNCHANGED <<dvars, svars, pvars, fvars, mark, waiter, page, keyboard>>

\* the iterating call with its position moved to the next child
Advanced(calls) ==
  [calls EXCEPT ![Len(calls)] = [children |-> calls[Len(calls)].children,
                                 k |-> calls[Len(calls)].k + 1]]

\* markChildrenInteractive without the processedBackendIds test
ChildStep_NoProcessedTest(p, nodes, call, childBackendId) ==
  IF call.k > Len(call.children)
  THEN [p EXCEPT !.calls = SubSeq(p.calls, 1, Len(p.calls) - 1)]
  ELSE IF Falsy(childBackendId)
  THEN [p EXCEPT !.calls = Advanced(p.calls)]
  ELSE [Propagate(p, nodes, call.children[call.k], childBackendId,
                  Called([p EXCEPT !.calls = Advanced(p.calls)], call.children[call.k]))
          EXCEPT !.descents = Append(p.descents, childBackendId)]

\* one iteration of the for loop of the innermost running markChildrenInteractive call,
\* or its return after the last child
ChildStep(p, nodes, call, childBackendId) ==
  IF call.k > Len(call.children)
  THEN [p EXCEPT !.calls = SubSeq(p.calls, 1, Len(p.calls) - 1)]
  ELSE IF Falsy(childBackendId) \/ childBackendId \in p.processedBackendIds
  THEN [p EXCEPT !.calls = Advanced(p.calls)]
  ELSE [Propagate(p, nodes, call.children[call.k], childBackendId,
                  Called([p EXCEPT !.calls = Advanced(p.calls)], call.children[call.k]))
          EXCEPT !.descents = Append(p.descents, childBackendId)]

\* the backend node id of the child a call is at, Undefined past the last child
ChildBackendId(nodes, call) ==
  IF call.k > Len(call.children) THEN Undefined
  ELSE At(nodes.backendNodeId, call.children[call.k])

MarkChildrenInteractive ==
  /\ ptr.pc = "layout"
  /\ ptr.calls # <<>>
  /\ Len(ptr.descents) < MaxDescents
  /\ ptr' = ChildStep(ptr, ptr.snapshot.documents[ptr.document].nodes,
                      ptr.calls[Len(ptr.calls)],
                      ChildBackendId(ptr.snapshot.documents[ptr.document].nodes,
                                     ptr.calls[Len(ptr.calls)]))
  /\ UNCHANGED <<dvars, svars, pvars, fvars, mark, waiter, page, keyboard>>

\* return pointerNodes
PtrReturns ==
  /\ ptr.pc = "layout"
  /\ ptr.calls = <<>>
  /\ ptr.document > Len(ptr.snapshot.documents)
  /\ ptr' = [ptr EXCEPT !.pc = "done"]
  /\ UNCHANGED <<dvars, svars, pvars, fvars, mark, waiter, page, keyboard>>

PtrNext == PtrLayout \/ MarkChildrenInteractive \/ PtrReturns

\* the call is synchronous: it runs until it returns
SpecPtr == PtrInit /\ [][PtrNext]_vars /\ WF_vars(PtrNext)

\* the parentIndex column of the one document of the running call
PtrParents == ptr.snapshot.documents[1].nodes.parentIndex
PtrBackendIds == ptr.snapshot.documents[1].nodes.backendNodeId

\* no backend node id is the target of two recursive calls
DescendedAtMostOnce ==
  \A i, j \in 1..Len(ptr.descents) : ptr.descents[i] = ptr.descents[j] => i = j

StepsAgreeWithRecursion ==
  ptr.pc = "done" => ptr.pointerNodes = findCursorPointerNodes(ptr.snapshot)

(***************************************************************************)
(* Trees with hidden nodes: every role the walk treats on a path of its   *)
(* own, with and without the hidden property.                              *)
(***************************************************************************)
MaxHiddenNodes == 3

Hidden == Prop(Lit.hidden, BoolVal(TRUE))

HiddenPalette ==
  { Tpl(Lit.StaticText, <<"H","i">>, <<>>),
    Tpl(Lit.link, <<"G","o">>, <<Focusable>>),
    Tpl(Lit.generic, <<>>, <<>>),
    Tpl(Lit.StaticText, <<"H","i">>, <<Hidden>>),
    Tpl(Lit.link, <<"G","o">>, <<Focusable, Hidden>>),
    Tpl(Lit.generic, <<>>, <<Hidden>>),
    Tpl(Lit.none, <<>>, <<Hidden>>),
    Tpl(Lit.ListMarker, <<"*">>, <<Hidden>>),
    Tpl(Lit.heading, <<"H","i">>, <<Hidden>>) }

IsHiddenInput(s) ==
  \E n \in 2..MaxHiddenNodes :
    \E parents \in AxShapes(n), tpls \in [1..n -> HiddenPalette \cup {RootTpl}], ia \in Interactivity :
      /\ tpls[1] = RootTpl /\ \A i \in 2..n : tpls[i] \in HiddenPalette
      /\ s = Input(AxTree(parents, tpls), ia.cpn, ia.elm, NoFilter)

HiddenInit ==
  /\ DecodeIdle
  /\ PassIdle
  /\ RestIdle
  /\ spc = "ready"
  /\ IsHiddenInput(sin)
  /\ html = <<>>

SpecHidden == HiddenInit /\ [][SynthNext]_vars

IsHiddenNode(axNode) == getAxNodeProperty(axNode, Lit.hidden) = Lit.true

\* the node array with every hidden node taken out of the child lists
WithoutHidden(axNodes) ==
  [i \in 1..Len(axNodes) |->
     [axNodes[i] EXCEPT !.childIds =
        SelectSeq(axNodes[i].childIds,
                  LAMBDA id : ~(HasNode(axNodes, id) /\ IsHiddenNode(GetNode(axNodes, id))))]]

\* C23: a node whose hidden property is true contributes nothing, whatever its role, and
\* none of its children are rendered through it: the output is the output of the same
\* tree without its hidden nodes.
C23_HiddenContributesNothing ==
  spc = "done" =>
    html = axTreeToHtml(WithoutHidden(sin.axNodes), sin.cursorPointerNodes,
                        sin.eventListenerMap, sin.frameContextId, sin.viewportFilter,
                        sin.channel)

\* the same for the hidden nodes whose role is not StaticText
HiddenNonTextContributesNothing ==
  (spc = "done" /\ \A i \in 1..Len(sin.axNodes) :
                     IsHiddenNode(sin.axNodes[i]) =>
                       getAxNodeValue(sin.axNodes[i].role) # Lit.StaticText) =>
    html = axTreeToHtml(WithoutHidden(sin.axNodes), sin.cursorPointerNodes,
                        sin.eventListenerMap, sin.frameContextId, sin.viewportFilter,
                        sin.channel)

\* a hidden node with a rendered child below it has been walked
HiddenParentReached ==
  /\ spc = "done"
  /\ \E i \in 1..Len(sin.axNodes) :
       /\ IsHiddenNode(sin.axNodes[i])
       /\ getAxNodeValue(sin.axNodes[i].role) # Lit.StaticText
       /\ sin.axNodes[i].childIds # <<>>

(***************************************************************************)
(* Headings: a page whose first node is a non-editable heading with any   *)
(* level property, or none.                                                *)
(***************************************************************************)
MaxHeadingLevel == 9

\* the properties of a heading of level l; l = Undefined for a heading without the property
LevelProps(l) ==
  IF l = Undefined THEN <<>>
  ELSE IF l < 0 THEN <<Prop(Lit.level, StrVal(<<"-">> \o IntToStr(0 - l)))>>
  ELSE <<Prop(Lit.level, IntVal(l))>>

\* the levels tried: 0 to MaxHeadingLevel as integers, "-1" as a string, and none
HeadingLevels == (0..MaxHeadingLevel) \cup {0 - 1, Undefined}

IsHeadingInput(s) ==
  \E l \in HeadingLevels, name \in {<<"H","i">>, <<"G","o">>}, focusable \in BOOLEAN, n \in 2..3 :
    s = Input(AxTree([i \in 1..n |-> IF i = 1 THEN 0 ELSE 1],
                     [i \in 1..n |->
                        IF i = 1 THEN RootTpl
                        ELSE IF i = 2
                        THEN Tpl(Lit.heading, name,
                                 LevelProps(l) \o (IF focusable THEN <<Focusable>> ELSE <<>>))
                        ELSE Tpl(Lit.StaticText, <<"H","i">>, <<>>)]),
              EmptyMap, EmptyMap, NoFilter)

HeadingInit ==
  /\ DecodeIdle
  /\ PassIdle
  /\ RestIdle
  /\ spc = "ready"
  /\ IsHeadingInput(sin)
  /\ html = <<>>

SpecHeading == HeadingInit /\ [][SynthNext]_vars

\* the level property of the heading of the page as a number; Undefined when absent
HeadingLevel ==
  LET props == sin.axNodes[2].properties
      hits == {i \in 1..Len(props) : props[i].name = Lit.level}
      v == props[CHOOSE i \in hits : TRUE].value
  IN  IF hits = {} THEN Undefined
      ELSE IF v.type = "integer" THEN v.value
      ELSE 0 - ParseDigits(v.value, 2, 0)

Clamped(l) == IF l = Undefined THEN 2 ELSE IF l < 1 THEN 1 ELSE IF l > 6 THEN 6 ELSE l

\* the page starts with the opening tag <body><h{n}
OpensWithHeading(n) ==
  /\ StartsWith(html, <<"<","b","o","d","y",">","<","h">> \o IntToStr(n))
  /\ Len(html) > 9
  /\ html[10] \in {" ", ">"}

\* C24: a non-editable heading gets the tag h{n}, n its level clamped into 1..6, 2 when
\* the property is absent.
C24_HeadingLevelClamped == spc = "done" => OpensWithHeading(Clamped(HeadingLevel))

\* the tag of a heading is one of h1..h6, h{level} for a level from 1 to 6 and h2 for a
\* heading without the property
HeadingTagInRangeAndExactWithin ==
  spc = "done" =>
    /\ \E n \in 1..6 : OpensWithHeading(n)
    /\ HeadingLevel # Undefined /\ HeadingLevel >= 1 /\ HeadingLevel <= 6 =>
         OpensWithHeading(HeadingLevel)
    /\ HeadingLevel = Undefined => OpensWithHeading(2)

\* a heading of a level above 6 has been rendered
HeadingAboveSixReached == spc = "done" /\ HeadingLevel # Undefined /\ HeadingLevel > 6

(***************************************************************************)
(* Pointer propagation in snapshots with several documents.               *)
(***************************************************************************)
\* the backend node ids of the pointer-styled nodes of every document and of their DOM
\* descendants in the same document
PointerSubtreeIds(snap) ==
  UNION {{At(snap.documents[d].nodes.backendNodeId, a) :
            a \in {a \in 0..(Len(snap.documents[d].nodes.parentIndex) - 1) :
                     \E p \in PointerStyled(snap, snap.documents[d]) :
                       (a = p \/ IsDomDescendant(snap.documents[d], a, p))}} :
         d \in 1..Len(snap.documents)}

\* C25: in a snapshot with several documents, propagation from a pointer-styled node marks
\* only nodes below that node in the same document.
C25_PropagationStaysInDocumentSubtree ==
  dpc = "done" => DOMAIN pointerNodes \subseteq PointerSubtreeIds(snapshot)

\* the same for a snapshot of one document
PropagationStaysInSubtreeOfOneDocument ==
  (dpc = "done" /\ Len(snapshot.documents) = 1) =>
    DOMAIN pointerNodes \subseteq PointerSubtreeIds(snapshot)

\* a page with a frame document and a pointer-styled node has been analysed
PointerInManyDocumentsReached ==
  dpc = "done" /\ Len(snapshot.documents) > 1 /\ pointerNodes # EmptyMap

(***************************************************************************)
(* Attribute values: a single node whose value, name, url, aria string    *)
(* property or role carries a double quote.                                *)
(***************************************************************************)
Quoted == <<"a", "\"", "b">>
Plain == <<"a", "b">>

\* the properties of a node with one string property, or none for name = <<>>
StringProps(name, text) == IF name = <<>> THEN <<>> ELSE <<Prop(name, StrVal(text))>>

IsAttrInput(s) ==
  \E role \in {Lit.textbox, Lit.link, Lit.image, Lit.button, Quoted},
     prop \in AriaStringProps \cup {Lit.url, <<>>},
     text \in {Quoted, Plain}, value \in {NoVal, StrVal(Quoted)},
     name \in {<<>>, Quoted, <<"G","o">>} :
    s = Input(<< [AxTree(<<0>>, <<Tpl(role, name, StringProps(prop, text))>>)[1]
                    EXCEPT !.value = value] >>,
              EmptyMap, EmptyMap, NoFilter)

AttrInit ==
  /\ DecodeIdle
  /\ PassIdle
  /\ RestIdle
  /\ spc = "ready"
  /\ IsAttrInput(sin)
  /\ html = <<>>

SpecAttr == AttrInit /\ [][SynthNext]_vars

\* the text of the first tag of s, up to its closing bracket
OpeningTag(s) ==
  IF \E i \in 1..Len(s) : s[i] = ">"
  THEN SubSeq(s, 1, CHOOSE i \in 1..Len(s) : s[i] = ">" /\ \A j \in 1..(i - 1) : s[j] # ">")
  ELSE s

\* every double quote of the tag opens or closes an attribute value: there are two for
\* every ="
QuotesDelimitValues(tagText) ==
  Cardinality({i \in 1..Len(tagText) : tagText[i] = "\""})
    = 2 * Cardinality({i \in 1..(Len(tagText) - 1) : tagText[i] = "=" /\ tagText[i + 1] = "\""})

\* C26: no attribute value that comes from a node ends its attribute: the double quotes of
\* value, url, name (as alt or aria-label), the aria string properties and role are escaped.
C26_AttributeValuesEscaped == spc = "done" => QuotesDelimitValues(OpeningTag(html))

\* the node has an aria string property, or a role, with a double quote in it
HasQuotedAriaOrRole ==
  \/ getAxNodeValue(sin.axNodes[1].role) = Quoted
  \/ \E i \in 1..Len(sin.axNodes[1].properties) :
       /\ sin.axNodes[1].properties[i].name \in AriaStringProps
       /\ sin.axNodes[1].properties[i].value.value = Quoted

\* value, url and name are escaped
ValueUrlNameEscaped ==
  (spc = "done" /\ ~HasQuotedAriaOrRole) => QuotesDelimitValues(OpeningTag(html))

\* a node with a quoted value, url and name has been rendered with all three attributes
ValueUrlNameReached ==
  /\ spc = "done"
  /\ ~HasQuotedAriaOrRole
  /\ Cardinality({i \in 1..(Len(html) - 5) : SubSeq(html, i, i + 5) = Lit.quot}) >= 3

(***************************************************************************)
(* Pages with a frame under a viewport filter.  The box map is built from *)
(* the nodes of the top document only (extractor.ts, getNodeBoundingBoxes *)
(* of axTree.nodes); the ids of the nodes of the frame's tree are either  *)
(* their own or repeat ids of the top document, as the browser numbers    *)
(* them.                                                                   *)
(***************************************************************************)
\* the node id k places after id in NodeIds
ShiftedId(id, k) ==
  IF id = "" THEN ""
  ELSE NodeIds[(CHOOSE i \in 1..Len(NodeIds) : NodeIds[i] = id) + k]

\* the nodes of a tree with every node id moved k places
Renumbered(axNodes, k) ==
  [i \in 1..Len(axNodes) |->
     [axNodes[i] EXCEPT !.nodeId = ShiftedId(@, k), !.parentId = ShiftedId(@, k),
                        !.childIds = [j \in 1..Len(@) |-> ShiftedId(@[j], k)]]]

\* box maps over the nodes of the top document: the root, the link, the iframe
TopBoxes(link, iframe) ==
  <<[nodeId |-> "1", box |-> BoxInside]>>
    \o (IF link = "none" THEN <<>>
        ELSE <<[nodeId |-> "2", box |-> IF link = "inside" THEN BoxInside ELSE BoxBelow]>>)
    \o <<[nodeId |-> "3", box |-> IF iframe = "inside" THEN BoxInside ELSE BoxBelow]>>

IsFrameViewInput(s) ==
  \E iframeTpl \in IframeTpls, routeA \in {"direct", "late", "attached", "unreachable"},
     ownIds \in BOOLEAN, link \in {"none", "inside", "below"}, iframe \in {"inside", "below"} :
    s = [axNodes |-> TopDocument(iframeTpl), cursorPointerNodes |-> EmptyMap,
         eventListenerMap |-> EmptyMap, frameContextId |-> <<>>,
         viewportFilter |-> [present |-> TRUE, viewportInfo |-> MarkViewport,
                             nodeBoundingBoxes |-> TopBoxes(link, iframe)],
         channel |-> FrameChannel(routeA, 3, FrameA,
                                  Renumbered(DocumentA(FALSE), IF ownIds THEN 3 ELSE 0))]

FrameViewInit ==
  /\ DecodeIdle
  /\ PassIdle
  /\ RestIdle
  /\ spc = "ready"
  /\ IsFrameViewInput(sin)
  /\ html = <<>>

SpecFrameView == FrameViewInit /\ [][SynthNext]_vars

\* the iframe element of the top document has a box in the viewport
IframeVisible ==
  \E k \in 1..Len(sin.viewportFilter.nodeBoundingBoxes) :
    /\ sin.viewportFilter.nodeBoundingBoxes[k].nodeId = "3"
    /\ sin.viewportFilter.nodeBoundingBoxes[k].box = BoxInside

\* the tree of frame A is fetched populated, directly or through its target
FramePopulated ==
  FrameA \in DOMAIN sin.channel.frameTree \/ FrameA \in DOMAIN sin.channel.targetTree

\* the nodes of frame A have ids that no node of the top document has
FrameHasOwnIds ==
  \A r \in {sin.channel.frameTree, sin.channel.targetTree} :
    FrameA \in DOMAIN r =>
      \A i \in 1..Len(r[FrameA][Len(r[FrameA])].nodes) :
        ~HasNode(sin.axNodes, r[FrameA][Len(r[FrameA])].nodes[i].nodeId)

\* C27: under a viewport filter a visible iframe whose frame tree is populated contributes
\* the frame's content: the focusable link of the frame is in the output.
C27_VisibleIframeContributesFrame ==
  (spc = "done" /\ IframeVisible /\ FramePopulated) =>
    (Includes(html, BareMarker(5)) \/ Includes(html, PrefixedMarker(FrameA, 5)))

\* an iframe that is not visible contributes nothing of the frame
InvisibleIframeContributesNothing ==
  (spc = "done" /\ ~IframeVisible) =>
    ~(Includes(html, BareMarker(5)) \/ Includes(html, PrefixedMarker(FrameA, 5)))

\* a frame whose node ids are its own never contributes under a viewport filter
FrameWithOwnIdsDropped ==
  (spc = "done" /\ FrameHasOwnIds) =>
    ~(Includes(html, BareMarker(5)) \/ Includes(html, PrefixedMarker(FrameA, 5)))

\* the content of a frame has been rendered under a viewport filter
FrameContentUnderFilterReached ==
  spc = "done" /\ IframeVisible /\ Includes(html, BareMarker(5))

(***************************************************************************)
(* The network-idle waiter.  The debugger delivers events one at a time;  *)
(* a request event names a request the waiter tracks or one that started  *)
(* before wait() was called.  Every setTimeout of the finished handler is *)
(* a timer of its own; networkIdleTimeout holds the id of the last one.   *)
(***************************************************************************)
MaxRequests == 2
MaxTimers == 3

\* request ids; 0 is a request that was in flight before wait() was called
RequestIds == 0..MaxRequests

\* createNetworkIdleWaiter: the closure's variables (lines 22-27)
Created(waitForFCP) ==
  [pc |-> "created", waitForFCP |-> waitForFCP, isNetworkIdle |-> FALSE,
   hasFCP |-> ~waitForFCP, networkIdleTimeout |-> 0, inflightRequests |-> {},
   waitPromiseResolve |-> FALSE, aborted |-> FALSE, listeners |-> 0,
   timers |-> {}, armed |-> 0, outdated |-> {}, idleBy |-> 0,
   resolvedIn |-> [hasFCP |-> FALSE, inflightRequests |-> {}, idleByOutdated |-> FALSE]]

WaiterInit ==
  /\ \E waitForFCP \in BOOLEAN : waiter = Created(waitForFCP)
  /\ DecodeIdle
  /\ SynthIdle
  /\ PassIdle
  /\ mark = Idle /\ ptr = Idle /\ page = Idle /\ keyboard = Idle

\* clearTimeout(networkIdleTimeout)
Cleared(w) == [w EXCEPT !.timers = w.timers \ {w.networkIdleTimeout}]

\* reset()
Reset(w) ==
  [Cleared(w) EXCEPT !.isNetworkIdle = FALSE, !.hasFCP = ~w.waitForFCP,
                     !.inflightRequests = {}]

\* the finally block of wait(): removeListeners(); reset()
Exit(w, pc) == [Reset(w) EXCEPT !.pc = pc, !.listeners = 0]

\* checkCompletion, with the finally block that runs once the race is won
checkCompletion(w) ==
  IF /\ w.waitPromiseResolve
     /\ w.hasFCP
     /\ w.isNetworkIdle
     /\ w.inflightRequests = {}
     /\ ~w.aborted
  THEN [Exit(w, "resolved") EXCEPT
          !.waitPromiseResolve = FALSE,
          !.resolvedIn = [hasFCP |-> w.hasFCP, inflightRequests |-> w.inflightRequests,
                          idleByOutdated |-> w.idleBy \in w.outdated]]
  ELSE w

\* wait() up to the await: reset, three listeners added, the resolver stored
Wait ==
  /\ waiter.pc = "created"
  /\ waiter' = checkCompletion([Reset(waiter) EXCEPT !.pc = "waiting", !.listeners = 3,
                                                     !.waitPromiseResolve = TRUE])
  /\ UNCHANGED <<dvars, svars, pvars, fvars, mark, ptr, keyboard, page>>

\* onRequestSent; the timers it leaves pending were armed before this request started
RequestWillBeSent(r) ==
  /\ waiter.listeners > 0
  /\ r # 0 /\ r \notin waiter.inflightRequests
  /\ waiter' = IF waiter.aborted THEN waiter
               ELSE [Cleared(waiter) EXCEPT
                       !.inflightRequests = waiter.inflightRequests \cup {r},
                       !.isNetworkIdle = FALSE,
                       !.outdated = waiter.outdated \cup Cleared(waiter).timers]
  /\ UNCHANGED <<dvars, svars, pvars, fvars, mark, ptr, keyboard, page>>

\* the finished handler arms a new timer and stores its id without clearing the one before
Armed(w) ==
  [w EXCEPT !.armed = w.armed + 1, !.timers = w.timers \cup {w.armed + 1},
            !.networkIdleTimeout = w.armed + 1]

\* onRequestFinished for Network.loadingFinished or Network.loadingFailed
RequestFinished(r) ==
  /\ waiter.listeners > 0
  /\ waiter.armed < MaxTimers
  /\ waiter' = IF waiter.aborted THEN waiter
               ELSE IF waiter.inflightRequests \ {r} = {}
               THEN Armed([waiter EXCEPT !.inflightRequests = {}])
               ELSE [waiter EXCEPT !.inflightRequests = waiter.inflightRequests \ {r}]
  /\ UNCHANGED <<dvars, svars, pvars, fvars, mark, ptr, keyboard, page>>

\* onFirstContentfulPaint
FirstContentfulPaint ==
  /\ waiter.listeners > 0
  /\ waiter' = IF waiter.aborted THEN waiter
               ELSE checkCompletion([waiter EXCEPT !.hasFCP = TRUE])
  /\ UNCHANGED <<dvars, svars, pvars, fvars, mark, ptr, keyboard, page>>

\* a 500 ms timer that was not cleared runs its callback
IdleTimerFires(t) ==
  /\ t \in waiter.timers
  /\ waiter' = checkCompletion([waiter EXCEPT !.timers = waiter.timers \ {t},
                                              !.isNetworkIdle = TRUE, !.idleBy = t])
  /\ UNCHANGED <<dvars, svars, pvars, fvars, mark, ptr, keyboard, page>>

\* the maxWaitingTimeoutMs timer rejects the race
WaitTimesOut ==
  /\ waiter.pc = "waiting"
  /\ waiter' = Exit(waiter, "timedOut")
  /\ UNCHANGED <<dvars, svars, pvars, fvars, mark, ptr, keyboard, page>>

\* abort(): the signal is aborted and a running wait() is rejected
Abort ==
  /\ ~waiter.aborted
  /\ waiter' = IF waiter.pc = "waiting"
               THEN [Exit(waiter, "aborted") EXCEPT !.aborted = TRUE]
               ELSE [waiter EXCEPT !.aborted = TRUE]
  /\ UNCHANGED <<dvars, svars, pvars, fvars, mark, ptr, keyboard, page>>

WaiterNext ==
  \/ Wait
  \/ \E r \in RequestIds : RequestWillBeSent(r)
  \/ \E r \in RequestIds : RequestFinished(r)
  \/ FirstContentfulPaint
  \/ \E t \in 1..MaxTimers : IdleTimerFires(t)
  \/ WaitTimesOut
  \/ Abort

SpecWaiter == WaiterInit /\ [][WaiterNext]_vars

\* C28: wait() resolves only when first-contentful-paint has been observed (when
\* required), no tracked request is in flight and the idle flag was set by a timer armed
\* after the most recent request start; on every exit the three listeners are removed.
C28_ResolvesOnlyWhenIdleSettled ==
  /\ waiter.pc = "resolved" =>
       /\ waiter.resolvedIn.hasFCP
       /\ waiter.resolvedIn.inflightRequests = {}
       /\ ~waiter.resolvedIn.idleByOutdated
  /\ waiter.pc \in {"resolved", "timedOut", "aborted"} => waiter.listeners = 0

\* the same without the age of the timer that set the idle flag
ResolvesOnlyWithPaintAndNoRequest ==
  /\ waiter.pc = "resolved" =>
       /\ waiter.resolvedIn.hasFCP
       /\ waiter.resolvedIn.inflightRequests = {}
  /\ waiter.pc \in {"resolved", "timedOut", "aborted"} => waiter.listeners = 0

\* wait() has resolved on a timer armed after the last request start
ResolvedAfterRequestReached ==
  waiter.pc = "resolved" /\ ~waiter.resolvedIn.idleByOutdated /\ waiter.outdated # {}

(***************************************************************************)
(* A Page and the operations that reach initialize().  Every operation is *)
(* a call that runs up to its next await; the browser answers each        *)
(* request in a step of its own, so calls overlap.  The browser refuses   *)
(* to attach to a tab it is already attached to, and any request can fail.*)
(***************************************************************************)
MaxCalls == 2
MaxAttaches == 3

Callers == 1..MaxCalls

\* new Page(tabId): detachDebugger = null (line 21)
NewPage ==
  [pc |-> [c \in Callers |-> "idle"], detachDebugger |-> FALSE, attached |-> FALSE,
   closing |-> "idle", attaches |-> 0, overlapped |-> FALSE, failures |-> FALSE]

PageInit ==
  /\ page = NewPage
  /\ DecodeIdle
  /\ SynthIdle
  /\ PassIdle
  /\ mark = Idle /\ ptr = Idle /\ waiter = Idle /\ keyboard = Idle

InFlightCalls(p) == {c \in Callers : p.pc[c] \in {"attach", "enable", "createKeyboard"}}

\* initialize() up to its first await: the guard, then chrome.debugger.attach is sent
Initialized(p, c) ==
  IF p.detachDebugger THEN [p EXCEPT !.pc[c] = "done"]
  ELSE [p EXCEPT !.pc[c] = "attach", !.attaches = p.attaches + 1,
                 !.overlapped = p.overlapped \/ InFlightCalls(p) # {}]

\* click(), fill(), scroll(), navigate(), ... or initialize() itself is called
Initialize(c) ==
  /\ page.pc[c] \in {"idle", "done", "threw"}
  /\ page.attaches < MaxAttaches
  /\ page' = Initialized(page, c)
  /\ UNCHANGED <<dvars, svars, pvars, fvars, mark, ptr, waiter, keyboard>>

\* chrome.debugger.attach settles; the enable commands are sent after a success
AttachSettles(c) ==
  /\ page.pc[c] = "attach"
  /\ \/ /\ ~page.attached
        /\ page' = [page EXCEPT !.pc[c] = "enable", !.attached = TRUE]
     \/ page' = [page EXCEPT !.pc[c] = "threw", !.failures = TRUE]
  /\ UNCHANGED <<dvars, svars, pvars, fvars, mark, ptr, waiter, keyboard>>

\* Promise.all of the five enable commands settles; this.detachDebugger is assigned
EnableSettles(c) ==
  /\ page.pc[c] = "enable"
  /\ \/ page' = [page EXCEPT !.pc[c] = "createKeyboard", !.detachDebugger = TRUE]
     \/ page' = [page EXCEPT !.pc[c] = "threw", !.failures = TRUE]
  /\ UNCHANGED <<dvars, svars, pvars, fvars, mark, ptr, waiter, keyboard>>

\* createKeyboard settles; keyboard and mouse are assigned
KeyboardCreated(c) ==
  /\ page.pc[c] = "createKeyboard"
  /\ page' = [page EXCEPT !.pc[c] = "done"]
  /\ UNCHANGED <<dvars, svars, pvars, fvars, mark, ptr, waiter, keyboard>>

\* close() up to its await, or to its end when there is nothing to detach
Close ==
  /\ page.closing = "idle"
  /\ page' = IF page.detachDebugger THEN [page EXCEPT !.closing = "detach"]
             ELSE [page EXCEPT !.attaches = 0, !.overlapped = InFlightCalls(page) # {},
                               !.failures = FALSE]
  /\ UNCHANGED <<dvars, svars, pvars, fvars, mark, ptr, waiter, keyboard>>

\* chrome.debugger.detach settles (an error is only logged); detachDebugger = null
DetachSettles ==
  /\ page.closing = "detach"
  /\ \E detached \in BOOLEAN :
       page' = [page EXCEPT !.closing = "idle", !.detachDebugger = FALSE,
                            !.attached = page.attached /\ ~detached,
                            !.attaches = 0, !.overlapped = InFlightCalls(page) # {},
                            !.failures = FALSE]
  /\ UNCHANGED <<dvars, svars, pvars, fvars, mark, ptr, waiter, keyboard>>

PageNext ==
  \/ \E c \in Callers : Initialize(c)
  \/ \E c \in Callers : AttachSettles(c)
  \/ \E c \in Callers : EnableSettles(c)
  \/ \E c \in Callers : KeyboardCreated(c)
  \/ Close
  \/ DetachSettles

SpecPage == PageInit /\ [][PageNext]_vars

\* C29: for one Page, chrome.debugger.attach is called at most once between construction
\* (or the last close()) and the next close(), also when calls of initialize() overlap.
C29_AttachedAtMostOncePerPage == page.attaches <= 1

\* the same when no call of initialize() starts while another one is running and no
\* request has failed
AttachedOnceWhenSequential ==
  (~page.overlapped /\ ~page.failures) => page.attaches <= 1

\* a second operation has returned without attaching, after the first one attached
SecondCallReusedAttachment ==
  /\ ~page.overlapped /\ ~page.failures /\ page.attaches = 1
  /\ \A c \in Callers : page.pc[c] = "done"

(***************************************************************************)
(* The Keyboard.  A call of press, down or up is a list of key operations *)
(* run in order; every operation has a synchronous part (the key lookup   *)
(* and the update of the two sets) and the dispatch it awaits.            *)
(***************************************************************************)
MaxChordModifiers == 2

modifierKeys == {"Alt", "Control", "Meta", "Shift"}

\* keyMap: the descriptions of the keys of the layout that the chords use
keyMap ==
  [Shift |-> [code |-> "ShiftLeft", key |-> "Shift"],
   Control |-> [code |-> "ControlLeft", key |-> "Control"],
   a |-> [code |-> "KeyA", key |-> "a"]]

\* key names a caller may write; Bogus is in no layout
KeyNames == {"Shift", "Control", "a", "Bogus"}

\* chords: up to MaxChordModifiers modifiers, then the main key
Chords ==
  UNION {{mods \o <<main>> : mods \in [1..n -> {"Shift", "Control"}], main \in {"a", "Bogus"}} :
         n \in 0..MaxChordModifiers}

Reversed(s) == [i \in 1..Len(s) |-> s[Len(s) + 1 - i]]

Op(type, key) == [type |-> type, key |-> key]

\* the down and up calls press makes for a chord, in order (lines 110-131)
PressOps(chord) ==
  LET parts == SubSeq(chord, 1, Len(chord) - 1)
      mainKey == chord[Len(chord)]
  IN  [i \in 1..Len(parts) |-> Op("down", parts[i])]
        \o <<Op("down", mainKey), Op("up", mainKey)>>
        \o [i \in 1..Len(parts) |-> Op("up", Reversed(parts)[i])]

\* new Keyboard(debuggee, os)
NewKeyboard ==
  [pc |-> "ready", call |-> "none", ops |-> <<>>, next |-> 1,
   pressedModifiers |-> {}, pressedKeys |-> {},
   before |-> [pressedModifiers |-> {}, pressedKeys |-> {}], sent |-> <<>>]

KeyboardInit ==
  /\ keyboard = NewKeyboard
  /\ DecodeIdle
  /\ SynthIdle
  /\ PassIdle
  /\ mark = Idle /\ ptr = Idle /\ waiter = Idle /\ page = Idle

\* a call starts on a keyboard no call is running on
StartCall(k, call, ops) ==
  [k EXCEPT !.pc = "sync", !.call = call, !.ops = ops, !.next = 1, !.sent = <<>>,
            !.before = [pressedModifiers |-> k.pressedModifiers,
                        pressedKeys |-> k.pressedKeys]]

Press(chord) ==
  /\ keyboard.pc \in {"ready", "returned", "threw"}
  /\ keyboard' = StartCall(keyboard, "press", PressOps(chord))
  /\ UNCHANGED <<dvars, svars, pvars, fvars, mark, ptr, waiter, page>>

\* keyboard.down(key) or keyboard.up(key) called by the user of the keyboard
HoldOrRelease(type, key) ==
  /\ keyboard.pc \in {"ready", "returned", "threw"}
  /\ keyboard' = StartCall(keyboard, type, <<Op(type, key)>>)
  /\ UNCHANGED <<dvars, svars, pvars, fvars, mark, ptr, waiter, page>>

\* down(key) up to the dispatch
Down(k, description) ==
  [k EXCEPT !.pc = "dispatch",
            !.pressedKeys = k.pressedKeys \cup {description.code},
            !.pressedModifiers = IF description.key \in modifierKeys
                                 THEN k.pressedModifiers \cup {description.key}
                                 ELSE k.pressedModifiers]

\* up(key) up to the dispatch
Up(k, description) ==
  [k EXCEPT !.pc = "dispatch",
            !.pressedKeys = k.pressedKeys \ {description.code},
            !.pressedModifiers = IF description.key \in modifierKeys
                                 THEN k.pressedModifiers \ {description.key}
                                 ELSE k.pressedModifiers]

\* the synchronous part of the next operation; _getKeyDescription throws on an unknown key
RunOp(k, op) ==
  IF op.key \notin DOMAIN keyMap THEN [k EXCEPT !.pc = "threw"]
  ELSE IF op.type = "down" THEN Down(k, keyMap[op.key])
  ELSE Up(k, keyMap[op.key])

KeyOperation ==
  /\ keyboard.pc = "sync"
  /\ keyboard' = RunOp(keyboard, keyboard.ops[keyboard.next])
  /\ UNCHANGED <<dvars, svars, pvars, fvars, mark, ptr, waiter, page>>

\* Input.dispatchKeyEvent was accepted: the next operation runs, or the call returns
Dispatched(k) ==
  [k EXCEPT !.sent = Append(k.sent, k.ops[k.next]), !.next = k.next + 1,
            !.pc = IF k.next = Len(k.ops) THEN "returned" ELSE "sync"]

\* Input.dispatchKeyEvent settles; a rejection leaves the call through every await
DispatchSettles ==
  /\ keyboard.pc = "dispatch"
  /\ \/ keyboard' = Dispatched(keyboard)
     \/ keyboard' = [keyboard EXCEPT !.pc = "threw"]
  /\ UNCHANGED <<dvars, svars, pvars, fvars, mark, ptr, waiter, page>>

KeyboardNext ==
  \/ \E chord \in Chords : Press(chord)
  \/ \E type \in {"down", "up"}, key \in KeyNames : HoldOrRelease(type, key)
  \/ KeyOperation
  \/ DispatchSettles

SpecKeyboard == KeyboardInit /\ [][KeyboardNext]_vars

\* the sets of pressed modifiers and pressed keys are what they were before the call
SetsRestored ==
  /\ keyboard.pressedModifiers = keyboard.before.pressedModifiers
  /\ keyboard.pressedKeys = keyboard.before.pressedKeys

\* C30: press sends the key events in the order downs of the modifiers, down and up of the
\* main key, ups of the modifiers in reverse; when it returns or throws, the sets of
\* pressed modifiers and pressed keys equal what they were before the call.
C30_PressOrderedAndRestoring ==
  keyboard.call = "press" =>
    /\ keyboard.pc = "returned" => keyboard.sent = keyboard.ops
    /\ keyboard.pc \in {"returned", "threw"} => SetsRestored

\* the same for a press that returns, on a keyboard that held no key before the call
PressRestoresWhenItReturnsOnIdleKeyboard ==
  (keyboard.call = "press" /\ keyboard.pc = "returned") =>
    /\ keyboard.sent = keyboard.ops
    /\ (keyboard.before.pressedKeys = {} => SetsRestored)

\* a chord with two modifiers has been pressed and released on a keyboard that held no key
ChordPressedReached ==
  /\ keyboard.call = "press" /\ keyboard.pc = "returned"
  /\ Len(keyboard.ops) = 6 /\ keyboard.before.pressedKeys = {}
====
